---- MODULE Spec2Model ----
(***************************************************************************)
(* Verification model of the Gemini call-orchestration subsystem:          *)
(*   - GeminiContextCacheService   (context cache get-or-create, purge)    *)
(*   - GeminiCachePersistenceService (persisted key -> cache-name map)     *)
(*   - GeminiRetryHandlerService   (executeWithRetry)                      *)
(*   - GeminiApiOrchestratorService (orchestrateApiCall)                   *)
(* Node.js runs every synchronous code segment atomically; a process can   *)
(* only be interleaved with another one at an `await` of real I/O or of a  *)
(* timer.  Each action below is one such synchronous segment.              *)
(***************************************************************************)
EXTENDS Integers, Sequences, FiniteSets, TLC

\* ------------------------------------------------------------------ bounds
NumCallers == 3          \* concurrent requests using the cache service
MaxOps == 3              \* get-or-create operations (async IIFEs) started
MaxCalls == 3            \* calls issued by the requests of the cache model
MaxRetries == 3          \* largest maxAttemptsForThisCall of the engine model
MaxFallbackRetries == 2  \* largest GEMINI_MAX_RETRIES of the orchestration model
MaxRateLimitHits == 2    \* internal rate-limit rejections per engine run

\* --------------------------------------------------------- cache: domains
ApiTypes == {"extract"}
ModelNames == {"m1", "m2"}

\* `${apiType}-${modelName}`
cacheKey(apiType, modelName) == <<apiType, modelName>>

CacheKeys == {cacheKey(a, m) : a \in ApiTypes, m \in ModelNames}

\* null / undefined CachedContent; cache names are the integers >= 1
NoCache == 0

Callers == 1..NumCallers

VARIABLES
    contextCachesInternal,           \* Map<cacheKey, CachedContent>, by name
    cachePromisesInternal,           \* Map<cacheKey, Promise>, by op id
    persistentCacheNameMapInternal,  \* Map<cacheKey, cacheName>
    cacheMapFile,                    \* content of gemini_cache_map.json
    cacheMapDirExists,               \* existsSync(cacheMapDir)
    cacheManagerAvailable,           \* getCacheManager() does not throw
    ops,                             \* the async IIFEs of getOrCreateContext
    callers,                         \* the requests using the cache service
    calls,                           \* number of calls issued so far
    response,                        \* one run of processResponse
    vps,                             \* the VPS worker: limiters and tasks
    api                              \* GeminiApiService: fields and calls

cacheVars == <<contextCachesInternal, cachePromisesInternal,
               persistentCacheNameMapInternal, cacheMapFile,
               cacheMapDirExists, cacheManagerAvailable, ops, callers>>

\* ---------------------------------------------- GeminiCachePersistenceService
getPersistentCacheName(k) == persistentCacheNameMapInternal[k]

hasPersistentCacheName(k) == persistentCacheNameMapInternal[k] # NoCache

deletePersistentCacheName_MutantKeeps(map, k) == map

deletePersistentCacheName(map, k) == [map EXCEPT ![k] = NoCache]

setPersistentCacheName(map, k, name) == [map EXCEPT ![k] = name]

\* saveMap up to its first await: mkdir when the directory is missing,
\* otherwise the map is serialised (snapshot) and writeFile is awaited.
saveMapFirstAwait == IF cacheMapDirExists THEN "write" ELSE "mkdir"

\* ------------------------------------------------- GeminiContextCacheService
IdleCaller == [pc |-> "idle", key |-> cacheKey("extract", "m1"),
               joined |-> 0, result |-> NoCache, snap |-> <<>>]

InFlight(o) == ops[o].pc # "finished"

\* name given by the provider to the cache created by operation o
FreshName(o) == o + 1

\* the finally block of the IIFE: the promise map entry of the key is deleted
DeletePromise(map, k) == [map EXCEPT ![k] = 0]

\* step 2 of getOrCreateContext: is a creation/retrieval already in progress
PromiseInProgress_MutantNever(k) == FALSE

PromiseInProgress(k) == cachePromisesInternal[k] # 0

NewOp(k, pc, known, creates) ==
    [key |-> k, pc |-> pc, known |-> known, snap |-> <<>>,
     retrievalFailed |-> FALSE, creates |-> creates,
     created |-> NoCache, value |-> NoCache]

\* step 1 of getOrCreateContext: if (cachedInMemory?.name)
InMemoryHit_MutantNever(k) == FALSE

InMemoryHit(k) == contextCachesInternal[k] # NoCache

\* getOrCreateContext, from the call to its first suspension
getOrCreateContext(c, k) ==
    /\ callers[c].pc \in {"idle", "returned"}
    /\ UNCHANGED <<contextCachesInternal, persistentCacheNameMapInternal,
                   cacheMapFile, cacheMapDirExists, cacheManagerAvailable>>
    /\ IF InMemoryHit(k)
       THEN \* 1. in-memory hit
            /\ callers' = [callers EXCEPT ![c] =
                   [pc |-> "returned", key |-> k, joined |-> 0,
                    result |-> contextCachesInternal[k], snap |-> <<>>]]
            /\ UNCHANGED <<ops, cachePromisesInternal>>
       ELSE IF PromiseInProgress(k)
       THEN \* 2. await the promise already registered
            /\ callers' = [callers EXCEPT ![c] =
                   [pc |-> "awaiting", key |-> k,
                    joined |-> cachePromisesInternal[k],
                    result |-> NoCache, snap |-> <<>>]]
            /\ UNCHANGED <<ops, cachePromisesInternal>>
       ELSE \* 3. run the IIFE up to its first await, then register it
            /\ Len(ops) < MaxOps
            /\ LET o == Len(ops) + 1 IN
               /\ ops' = Append(ops,
                     IF ~cacheManagerAvailable
                     THEN NewOp(k, "finished", NoCache, 0)
                     ELSE IF getPersistentCacheName(k) # NoCache
                     THEN NewOp(k, "retrieving", getPersistentCacheName(k), 0)
                     ELSE NewOp(k, "creating", NoCache, 1))
               /\ cachePromisesInternal' =
                     [cachePromisesInternal EXCEPT ![k] = o]
               /\ callers' = [callers EXCEPT ![c] =
                     [pc |-> "awaiting", key |-> k, joined |-> o,
                      result |-> NoCache, snap |-> <<>>]]

\* `return await cachePromise` once the promise is settled
AwaitCachePromise(c) ==
    /\ callers[c].pc = "awaiting"
    /\ ~InFlight(callers[c].joined)
    /\ callers' = [callers EXCEPT ![c].pc = "returned",
                                  ![c].result = ops[callers[c].joined].value]
    /\ UNCHANGED <<contextCachesInternal, cachePromisesInternal,
                   persistentCacheNameMapInternal, cacheMapFile,
                   cacheMapDirExists, cacheManagerAvailable, ops>>

\* the IIFE returns v: finally deletes the promise of the key
Finish(o, v) ==
    /\ ops' = [ops EXCEPT ![o].pc = "finished", ![o].value = v]
    /\ cachePromisesInternal' = DeletePromise(cachePromisesInternal, ops[o].key)

\* the IIFE after `await removePersistentEntry`: the double check of the
\* in-memory map (mem is the map at that point), then createSdkCache is issued
DoubleCheckThenCreate(o, mem) ==
    IF mem[ops[o].key] # NoCache
    THEN Finish(o, mem[ops[o].key])
    ELSE /\ ops' = [ops EXCEPT ![o].pc = "creating", ![o].creates = @ + 1,
                               ![o].retrievalFailed = TRUE]
         /\ UNCHANGED cachePromisesInternal

\* getSdkCache settles: found / not found (undefined) / error thrown
getSdkCacheSettles(o) ==
    /\ o \in 1..Len(ops)
    /\ ops[o].pc = "retrieving"
    /\ UNCHANGED <<cacheManagerAvailable, callers, cacheMapFile,
                   cacheMapDirExists>>
    /\ \E outcome \in {"found", "not_found", "error"} :
       LET k == ops[o].key IN
       IF outcome = "found"
       THEN /\ contextCachesInternal' =
                  [contextCachesInternal EXCEPT ![k] = ops[o].known]
            /\ Finish(o, ops[o].known)
            /\ UNCHANGED persistentCacheNameMapInternal
       ELSE \* removePersistentEntry(cacheKey), up to its first await
            IF hasPersistentCacheName(k)
            THEN /\ persistentCacheNameMapInternal' =
                      deletePersistentCacheName(persistentCacheNameMapInternal, k)
                 /\ ops' = [ops EXCEPT
                      ![o].pc = "rm_" \o saveMapFirstAwait,
                      ![o].retrievalFailed = TRUE,
                      ![o].snap = persistentCacheNameMapInternal']
                 /\ UNCHANGED <<contextCachesInternal, cachePromisesInternal>>
            ELSE /\ contextCachesInternal' =
                      [contextCachesInternal EXCEPT ![k] = NoCache]
                 /\ DoubleCheckThenCreate(o, contextCachesInternal')
                 /\ UNCHANGED persistentCacheNameMapInternal

\* createSdkCache threw or returned an object without name: return null
CreationFailed_MutantStoresFirst(o) ==
    /\ contextCachesInternal' =
          [contextCachesInternal EXCEPT ![ops[o].key] = FreshName(o)]
    /\ Finish(o, NoCache)
    /\ UNCHANGED persistentCacheNameMapInternal

CreationFailed(o) ==
    /\ Finish(o, NoCache)
    /\ UNCHANGED <<contextCachesInternal, persistentCacheNameMapInternal>>

\* createSdkCache settles: a named cache / an object without name / an error
createSdkCacheSettles(o) ==
    /\ o \in 1..Len(ops)
    /\ ops[o].pc = "creating"
    /\ UNCHANGED <<cacheManagerAvailable, callers, cacheMapFile,
                   cacheMapDirExists>>
    /\ \E outcome \in {"named", "no_name", "error"} :
       LET k == ops[o].key IN
       IF outcome = "named"
       THEN /\ contextCachesInternal' =
                  [contextCachesInternal EXCEPT ![k] = FreshName(o)]
            /\ persistentCacheNameMapInternal' =
                  setPersistentCacheName(persistentCacheNameMapInternal, k,
                                         FreshName(o))
            /\ ops' = [ops EXCEPT
                  ![o].pc = "save_" \o saveMapFirstAwait,
                  ![o].created = FreshName(o),
                  ![o].snap = persistentCacheNameMapInternal']
            /\ UNCHANGED cachePromisesInternal
       ELSE CreationFailed(o)

\* saveMap: fsPromises.mkdir settles (a failure is caught, nothing is written)
saveMapMkdirSettles(o) ==
    /\ o \in 1..Len(ops)
    /\ ops[o].pc \in {"rm_mkdir", "save_mkdir"}
    /\ UNCHANGED <<cacheManagerAvailable, callers, cacheMapFile,
                   persistentCacheNameMapInternal>>
    /\ \E ok \in BOOLEAN :
       IF ok
       THEN /\ cacheMapDirExists' = TRUE
            /\ ops' = [ops EXCEPT
                  ![o].pc = IF ops[o].pc = "rm_mkdir" THEN "rm_write"
                                                      ELSE "save_write",
                  ![o].snap = persistentCacheNameMapInternal]
            /\ UNCHANGED <<contextCachesInternal, cachePromisesInternal>>
       ELSE /\ UNCHANGED cacheMapDirExists
            /\ IF ops[o].pc = "rm_mkdir"
               THEN /\ contextCachesInternal' =
                         [contextCachesInternal EXCEPT ![ops[o].key] = NoCache]
                    /\ DoubleCheckThenCreate(o, contextCachesInternal')
               ELSE /\ Finish(o, ops[o].created)
                    /\ UNCHANGED contextCachesInternal

\* saveMap: fsPromises.writeFile settles (a failure is caught)
saveMapWriteSettles(o) ==
    /\ o \in 1..Len(ops)
    /\ ops[o].pc \in {"rm_write", "save_write"}
    /\ UNCHANGED <<cacheManagerAvailable, callers, cacheMapDirExists,
                   persistentCacheNameMapInternal>>
    /\ \E ok \in BOOLEAN :
       cacheMapFile' = IF ok THEN ops[o].snap ELSE cacheMapFile
    /\ IF ops[o].pc = "rm_write"
       THEN \* rest of removePersistentEntry, then back in the IIFE
            /\ contextCachesInternal' =
                 [contextCachesInternal EXCEPT ![ops[o].key] = NoCache]
            /\ DoubleCheckThenCreate(o, contextCachesInternal')
       ELSE /\ Finish(o, ops[o].created)
            /\ UNCHANGED contextCachesInternal

deleteInMemoryOnly(mem, k) == [mem EXCEPT ![k] = NoCache]

\* stale-cache invalidation as issued by executeWithRetry and prepareModel:
\* deleteInMemoryOnly(key); await removePersistentEntry(key)
InvalidateCache(c, k) ==
    /\ callers[c].pc \in {"idle", "returned"}
    /\ UNCHANGED <<cachePromisesInternal, cacheMapFile, cacheMapDirExists,
                   cacheManagerAvailable, ops>>
    /\ contextCachesInternal' = deleteInMemoryOnly(contextCachesInternal, k)
    /\ IF hasPersistentCacheName(k)
       THEN /\ persistentCacheNameMapInternal' =
                 deletePersistentCacheName(persistentCacheNameMapInternal, k)
            /\ callers' = [callers EXCEPT ![c] =
                 [pc |-> "inv_" \o saveMapFirstAwait, key |-> k, joined |-> 0,
                  result |-> NoCache,
                  snap |-> persistentCacheNameMapInternal']]
       ELSE /\ UNCHANGED persistentCacheNameMapInternal
            /\ callers' = [callers EXCEPT ![c] =
                 [pc |-> "idle", key |-> k, joined |-> 0,
                  result |-> NoCache, snap |-> <<>>]]

\* removePersistentEntry called by an invalidation: the awaited saveMap
\* settles (mkdir, then writeFile), then the in-memory entry is deleted
removePersistentEntry(c) ==
    /\ callers[c].pc \in {"inv_mkdir", "inv_write"}
    /\ UNCHANGED <<cachePromisesInternal, persistentCacheNameMapInternal,
                   cacheManagerAvailable, ops>>
    /\ \E ok \in BOOLEAN :
       IF callers[c].pc = "inv_mkdir" /\ ok
       THEN /\ cacheMapDirExists' = TRUE
            /\ callers' = [callers EXCEPT ![c].pc = "inv_write",
                             ![c].snap = persistentCacheNameMapInternal]
            /\ UNCHANGED <<cacheMapFile, contextCachesInternal>>
       ELSE /\ cacheMapFile' = IF callers[c].pc = "inv_write" /\ ok
                               THEN callers[c].snap ELSE cacheMapFile
            /\ contextCachesInternal' =
                 [contextCachesInternal EXCEPT ![callers[c].key] = NoCache]
            /\ callers' = [callers EXCEPT ![c].pc = "idle",
                                          ![c].snap = <<>>]
            /\ UNCHANGED cacheMapDirExists


\* ------------------------------------------------- GeminiRetryHandlerService
VARIABLES
    cfg,      \* configuration and parameters of the orchestrated request
    orch,     \* orchestrateApiCall: position, locals and result
    eng       \* executeWithRetry: position, locals and result

orchVars == <<cfg, orch, eng>>

vars == <<contextCachesInternal, cachePromisesInternal,
          persistentCacheNameMapInternal, cacheMapFile, cacheMapDirExists,
          cacheManagerAvailable, ops, callers, calls, response, vps, api,
          cfg, orch, eng>>

Min(a, b) == IF a < b THEN a ELSE b

Max(a, b) == IF a > b THEN a ELSE b

\* An error message is represented by the groups of substrings it contains:
\*   "5xx"    : 503 | 500 | unavailable | internal
\*   "cache"  : cachedcontent not found | permission denied on cached content
\*              | cannot find cached content
\*   "429"    : 429 | resource_exhausted | rate limit
\*   "safety" : blocked | safety
ErrorMarks == {"5xx", "cache", "429", "safety"}

\* the if / else-if chain classifying errorMessageLower
ClassifyError(marks) ==
    IF "5xx" \in marks THEN "5xx"
    ELSE IF "cache" \in marks THEN "cache"
    ELSE IF "429" \in marks THEN "429"
    ELSE IF "safety" \in marks THEN "safety_blocked"
    ELSE "unknown"

shouldRetry(class) == class # "safety_blocked"

invalidateCacheOnError(class) == class = "cache"

is5xxError(class) == class = "5xx"

\* Errors the prepared call can throw (other than RateLimiterRes).
\* processResponse throws `Request blocked by safety settings: <blockReason>.`
\* for a blocked response; its invalid-JSON error quotes the parser message
\* and a snippet of the response text, a provider error carries any message.
ThrownErrors ==
    {[origin |-> "safety_block", marks |-> {"safety"}]}
    \cup {[origin |-> o, marks |-> s] :
             o \in {"invalid_json", "provider"}, s \in SUBSET ErrorMarks}

MsBeforeNextValues == {1000, 30000}

\* Math.random() * 500, sampled
JitterValues == {0, 499}

NoResult == [defined |-> FALSE, responseText |-> "", metaData |-> "null",
             finalErrorType |-> "undefined", firstAttemptFailed |-> FALSE]

\* { ...defaultResponse, firstAttemptFailed: true, finalErrorType }
FailureResult(finalErrorType) ==
    [defined |-> TRUE, responseText |-> "", metaData |-> "null",
     finalErrorType |-> finalErrorType, firstAttemptFailed |-> TRUE]

\* ModelPreparationResult: the request shape (cached or not) and the handle
ModelPreparationResult(usingCacheActual, currentCache) ==
    [usingCacheActual |-> usingCacheActual, currentCache |-> currentCache]

NoPreparation == ModelPreparationResult(FALSE, NoCache)

IdleEngine ==
    [pc |-> "idle", modelName |-> "", maxAttempts |-> 0, retryCount |-> 0,
     currentDelay |-> 0, waitMs |-> 0, errClass |-> "none",
     result |-> NoResult,
     \* history of the run
     nCalls |-> 0, nFailures |-> 0, nRateLimited |-> 0, nBackoffs |-> 0,
     lastWait |-> 0, lastBase |-> 0, rlWaited |-> FALSE,
     \* the ModelPreparationResult handed in, and the one last invoked
     modelPreparation |-> NoPreparation, invokedWith |-> NoPreparation]

\* the second argument of apiCallFn(limiter, modelPreparation, ...)
InvokedPreparation_MutantDropsStaleCache(e) ==
    IF e.errClass = "cache" THEN NoPreparation ELSE e.modelPreparation

InvokedPreparation(e) == e.modelPreparation

\* the loop condition, then the invocation of the prepared call
LoopTop(e) ==
    IF e.retryCount < e.maxAttempts
    THEN [e EXCEPT !.pc = "calling", !.nCalls = @ + 1,
                   !.invokedWith = InvokedPreparation(e)]
    ELSE [e EXCEPT !.pc = "returned",
                   !.result = FailureResult("failed_first_attempt")]

\* isLastAttemptAfterThisFailure
IsLastAttempt(retryCount, maxAttempts) == retryCount >= maxAttempts

\* (attempt === 1 && maxAttemptsForThisCall === 1) || !shouldRetry
AbortsNow_MutantNoSingleShot(attempt, maxAttempts, retry) == ~retry

AbortsNow(attempt, maxAttempts, retry) ==
    (attempt = 1 /\ maxAttempts = 1) \/ ~retry

\* currentDelay = Math.min(currentDelay * 2, this.maxDelayMs)
NextDelay_MutantHalves(currentDelay, maxDelayMs) ==
    Min(currentDelay \div 2, maxDelayMs)

NextDelay(currentDelay, maxDelayMs) == Min(currentDelay * 2, maxDelayMs)

\* retryCount++
CountFailure_MutantNoCount(retryCount) == retryCount

CountFailure(retryCount) == retryCount + 1

\* the catch block after the classification and the cache invalidation
AfterFailure(e, class, jitter) ==
    LET attempt == e.retryCount + 1
        rc == CountFailure(e.retryCount)
        e1 == [e EXCEPT !.retryCount = rc]
    IN IF AbortsNow(attempt, e.maxAttempts, shouldRetry(class))
       THEN [e1 EXCEPT !.pc = "returned",
               !.result = FailureResult(IF ~shouldRetry(class)
                                        THEN "non_retryable_error"
                                        ELSE "failed_first_attempt")]
       ELSE IF IsLastAttempt(rc, e.maxAttempts)
       THEN [e1 EXCEPT !.pc = "returned",
               !.result = FailureResult(IF is5xxError(class)
                              THEN "5xx_non_retryable_for_current_model"
                              ELSE "failed_first_attempt")]
       ELSE [e1 EXCEPT !.pc = "backoff_wait",
               !.waitMs = Max(0, e.currentDelay + jitter),
               !.nBackoffs = @ + 1,
               !.lastWait = Max(0, e.currentDelay + jitter),
               !.lastBase = e.currentDelay]

\* the request of the orchestration model is request 1 of the cache service
Req == 1

ReqModel == IF orch.phase = "primary" THEN cfg.primaryModelName
                                      ELSE cfg.fallbackModelName

ReqKey == cacheKey("extract", ReqModel)

\* `await this.contextCache.removePersistentEntry(...)`: the caller goes on
\* when the removal, its map save included, has returned
removePersistentEntryAwaited_MutantNotAwaited(c) == TRUE

removePersistentEntryAwaited(c) == callers[c].pc = "idle"

\* await apiCallFn(...) returns a ProcessedGeminiResponse
apiCallReturns ==
    /\ eng.pc = "calling"
    /\ \E text \in {"", "json"}, meta \in {"null", "usage"} :
          eng' = [eng EXCEPT !.pc = "returned",
                     !.result = [defined |-> TRUE, responseText |-> text,
                                 metaData |-> meta,
                                 finalErrorType |-> "undefined",
                                 firstAttemptFailed |-> eng.retryCount + 1 > 1]]
    /\ UNCHANGED <<cfg, orch>>
    /\ UNCHANGED <<cacheVars, calls, response, vps, api>>

\* await apiCallFn(...) throws a RateLimiterRes: wait msBeforeNext
apiCallRateLimited ==
    /\ eng.pc = "calling"
    /\ eng.nRateLimited < MaxRateLimitHits
    /\ \E ms \in MsBeforeNextValues :
          eng' = [eng EXCEPT !.pc = "rl_wait", !.waitMs = ms,
                             !.nRateLimited = @ + 1]
    /\ UNCHANGED <<cfg, orch>>
    /\ UNCHANGED <<cacheVars, calls, response, vps, api>>

\* after the rate-limit wait: single shot returns, otherwise `continue`
\* without touching retryCount or currentDelay
AfterRateLimitWait_MutantCounts(e) ==
    IF e.maxAttempts = 1
    THEN [e EXCEPT !.pc = "returned", !.rlWaited = TRUE, !.waitMs = 0,
                   !.result = FailureResult("failed_first_attempt")]
    ELSE LoopTop([e EXCEPT !.rlWaited = TRUE, !.waitMs = 0,
                           !.retryCount = @ + 1])

AfterRateLimitWait(e) ==
    IF e.maxAttempts = 1
    THEN [e EXCEPT !.pc = "returned", !.rlWaited = TRUE, !.waitMs = 0,
                   !.result = FailureResult("failed_first_attempt")]
    ELSE LoopTop([e EXCEPT !.rlWaited = TRUE, !.waitMs = 0])

\* the setTimeout(waitTimeMs) of the rate-limit branch fires
rateLimitWaitDone ==
    /\ eng.pc = "rl_wait"
    /\ eng' = AfterRateLimitWait(eng)
    /\ UNCHANGED <<cfg, orch>>
    /\ UNCHANGED <<cacheVars, calls, response, vps, api>>

\* await apiCallFn(...) throws an Error: classification, invalidation, abort
\* or backoff
apiCallThrows ==
    /\ eng.pc = "calling"
    /\ \E err \in ThrownErrors, jitter \in JitterValues :
       LET class == ClassifyError(err.marks)
           e1 == [eng EXCEPT !.errClass = class, !.nFailures = @ + 1]
       IN /\ orch' = [orch EXCEPT !.safetyBlocked =
                         @ \/ err.origin = "safety_block"]
          /\ IF invalidateCacheOnError(class)
             THEN /\ InvalidateCache(Req, ReqKey)
                  /\ eng' = [e1 EXCEPT !.pc = "invalidating"]
                  /\ UNCHANGED <<calls, response, vps, api>>
             ELSE /\ eng' = AfterFailure(e1, class, jitter)
                  /\ UNCHANGED <<cacheVars, calls, response, vps, api>>
    /\ UNCHANGED cfg

\* `await removePersistentEntry` of the stale-cache branch has returned
invalidationDone ==
    /\ eng.pc = "invalidating"
    /\ removePersistentEntryAwaited(Req)
    /\ \E jitter \in JitterValues :
          eng' = AfterFailure(eng, eng.errClass, jitter)
    /\ UNCHANGED <<cfg, orch>>
    /\ UNCHANGED <<cacheVars, calls, response, vps, api>>

\* the setTimeout(delayWithJitter) fires: the delay doubles, next attempt
backoffWaitDone ==
    /\ eng.pc = "backoff_wait"
    /\ eng' = LoopTop([eng EXCEPT !.waitMs = 0,
                  !.currentDelay = NextDelay(eng.currentDelay, cfg.maxDelayMs)])
    /\ UNCHANGED <<cfg, orch>>
    /\ UNCHANGED <<cacheVars, calls, response, vps, api>>

\* ---------------------------------------------- GeminiApiOrchestratorService
\* OrchestrationResult
OrchResult(success, usedFallback, model, treatment, finalErrorType, text, meta) ==
    [success |-> success, usedFallback |-> usedFallback,
     modelActuallyUsed |-> model, crawlModelActuallyUsed |-> treatment,
     finalErrorType |-> finalErrorType, responseText |-> text,
     metaData |-> meta]

NoOrchResult == OrchResult(FALSE, FALSE, "", "non-tuned", "undefined", "", "null")

\* the prompt handed to orchestrateApiCall
BatchPrompt == "prompt"

\* the parameters prepareForApiCall computes from the treatment of the call
PrepConfig(systemInstructionText, fewShotParts, useCache, responseMimeType, responseSchema, finalBatchPrompt) ==
    [systemInstructionText |-> systemInstructionText,
     fewShotParts |-> fewShotParts, shouldUseCache |-> useCache,
     responseMimeType |-> responseMimeType,
     responseSchema |-> responseSchema,
     finalBatchPrompt |-> finalBatchPrompt]

NoPrepConfig == PrepConfig("", <<>>, FALSE, "", FALSE, <<>>)

\* { model, contentRequest } of a ModelPreparationResult
PreparedRequest(cachedContent, systemInstruction, contents) ==
    [model |-> [cachedContent |-> cachedContent,
                systemInstruction |-> systemInstruction],
     contents |-> contents]

NoRequest == PreparedRequest(NoCache, "", <<>>)

IdleOrch ==
    [pc |-> "off", phase |-> "primary", usingCacheActual |-> FALSE,
     primaryModelResult |-> NoResult, result |-> NoOrchResult,
     \* history of the request
     primaryErrClass |-> "none", callsBefore |-> 0, prepCalls |-> 0,
     safetyBlocked |-> FALSE, limiterFailed |-> "",
     \* what prepareForApiCall computed and what prepareModel built
     prepConfig |-> NoPrepConfig, request |-> NoRequest]

\* invocations of the prepared call (provider calls) made by the request
ProviderCalls == orch.callsBefore + eng.nCalls

\* fallbackEffectiveCrawlModelType
fallbackEffectiveCrawlModelType_MutantInherits(initialCrawlModelType) ==
    initialCrawlModelType

fallbackEffectiveCrawlModelType(initialCrawlModelType) ==
    IF initialCrawlModelType = "tuned" THEN "non-tuned"
                                       ELSE initialCrawlModelType

EffectiveCrawlModelType ==
    IF orch.phase = "primary" THEN cfg.crawlModel
    ELSE fallbackEffectiveCrawlModelType(cfg.crawlModel)

\* shouldUseCache as computed by prepareForApiCall
shouldUseCache_MutantIgnoresTreatment(effectiveCrawlModelType) ==
    cfg.allowCacheForNonTuned

shouldUseCache(effectiveCrawlModelType) ==
    effectiveCrawlModelType # "tuned" /\ cfg.allowCacheForNonTuned

\* prepareForApiCall: the configuration applied for a tuned / non-tuned call
ApplyConfig(effectiveCrawlModelType) ==
    IF effectiveCrawlModelType = "tuned"
    THEN PrepConfig("", <<>>, shouldUseCache(effectiveCrawlModelType),
            "text/plain", FALSE,
            IF cfg.systemInstructionPrefixForNonTunedModel # ""
            THEN <<cfg.systemInstructionPrefixForNonTunedModel, "\n\n",
                   BatchPrompt>>
            ELSE <<BatchPrompt>>)
    ELSE LET mime == IF cfg.responseMimeType # "" THEN cfg.responseMimeType
                     ELSE "application/json"
         IN PrepConfig(cfg.systemInstruction,
               IF cfg.allowFewShotForNonTuned THEN cfg.fewShotParts ELSE <<>>,
               shouldUseCache(effectiveCrawlModelType),
               mime, cfg.responseSchema /\ mime = "application/json",
               <<BatchPrompt>>)

\* prepareModel, cached shape: the model of the handle, the prompt turn only
CachedRequest(currentCache, currentPrompt) ==
    PreparedRequest(currentCache, "",
                    <<[role |-> "user", text |-> currentPrompt]>>)

RECURSIVE History(_, _)
\* the few-shot parts from position i on, as alternating user / model turns
History(parts, i) ==
    IF i > Len(parts) THEN <<>>
    ELSE <<[role |-> "user", text |-> <<parts[i]>>]>>
         \o (IF i + 1 <= Len(parts)
             THEN <<[role |-> "model", text |-> <<parts[i + 1]>>]>>
             ELSE <<>>)
         \o History(parts, i + 2)

\* prepareModel, uncached shape: explicit system instruction, the few-shot
\* history, then the prompt turn
NonCachedRequest_MutantNoHistory(systemInstructionText, fewShotParts, currentPrompt) ==
    PreparedRequest(NoCache, systemInstructionText,
                    <<[role |-> "user", text |-> currentPrompt]>>)

NonCachedRequest(systemInstructionText, fewShotParts, currentPrompt) ==
    PreparedRequest(NoCache, systemInstructionText,
                    History(fewShotParts, 1)
                       \o <<[role |-> "user", text |-> currentPrompt]>>)

\* maxAttemptsForThisCall handed to executeWithRetry in each phase
MaxAttemptsOfPhase(phase) == IF phase = "primary" THEN 1 ELSE cfg.maxRetries

\* if (result.responseText || result.metaData)
HasContent_MutantTextOnly(r) == r.responseText # ""

HasContent(r) == r.responseText # "" \/ r.metaData # "null"

\* primaryModelResult?.finalErrorType || (primaryModelName ? ... : ...)
NoFallbackErrorType_MutantUnknown(primaryModelResult, primaryModelName) ==
    IF primaryModelResult.defined
          /\ primaryModelResult.finalErrorType # "undefined"
    THEN primaryModelResult.finalErrorType
    ELSE "primary_failed_unknown"

NoFallbackErrorType_MutantIgnoresPrimary(primaryModelResult, primaryModelName) ==
    IF primaryModelName # "" THEN "primary_failed_unknown"
                             ELSE "no_primary_model"

NoFallbackErrorType(primaryModelResult, primaryModelName) ==
    IF primaryModelResult.defined
          /\ primaryModelResult.finalErrorType # "undefined"
    THEN primaryModelResult.finalErrorType
    ELSE IF primaryModelName # "" THEN "primary_failed_unknown"
                                  ELSE "no_primary_model"

\* usedFallback of the result returned when the fallback run has content
FallbackSuccessUsedFallback_MutantFalse == FALSE

FallbackSuccessUsedFallback == TRUE

\* prepareForApiCall returned null
PreparationFailed ==
    IF orch.phase = "primary"
    THEN orch' = [orch EXCEPT !.pc = "decide"]
    ELSE orch' = [orch EXCEPT !.pc = "done",
            !.result = OrchResult(FALSE, TRUE, cfg.fallbackModelName,
                          EffectiveCrawlModelType, "fallback_prep_failed",
                          "", "null")]

\* an error thrown inside prepareForApiCall: its catch logs and returns null
PreparationThrew_MutantPropagates(o) == [o EXCEPT !.pc = "raised"]

PreparationThrew_MutantAbortsRequest(o) ==
    [o EXCEPT !.pc = "done",
        !.result = OrchResult(FALSE, o.phase = "fallback", ReqModel,
                      EffectiveCrawlModelType, "fallback_prep_failed",
                      "", "null")]

PreparationThrew(o) ==
    IF o.phase = "primary"
    THEN [o EXCEPT !.pc = "decide"]
    ELSE [o EXCEPT !.pc = "done",
            !.result = OrchResult(FALSE, TRUE, cfg.fallbackModelName,
                          EffectiveCrawlModelType, "fallback_prep_failed",
                          "", "null")]

\* orchestrateApiCall up to the primary preparation
orchestrateApiCall ==
    /\ orch.pc = "start"
    /\ orch' = [orch EXCEPT !.pc = IF cfg.primaryModelName = ""
                                   THEN "decide" ELSE "prep"]
    /\ UNCHANGED <<cfg, eng>>
    /\ UNCHANGED <<cacheVars, calls, response, vps, api>>

\* prepareForApiCall: getLimiter, the settings of the api type, the
\* parameters of the treatment, then prepareModel up to getOrCreateContext
prepareForApiCall ==
    /\ orch.pc = "prep"
    /\ UNCHANGED <<cfg, eng>>
    /\ \E fault \in {"none", "limiter_throws", "no_settings"} :
       IF fault = "limiter_throws"
       THEN /\ orch' = PreparationThrew([orch EXCEPT !.limiterFailed = ReqModel])
            /\ UNCHANGED <<cacheVars, calls, response, vps, api>>
       ELSE IF fault = "no_settings"
       THEN /\ PreparationFailed
            /\ UNCHANGED <<cacheVars, calls, response, vps, api>>
       ELSE IF ApplyConfig(EffectiveCrawlModelType).shouldUseCache
       THEN /\ getOrCreateContext(Req, ReqKey)
            /\ orch' = [orch EXCEPT !.pc = "cache", !.prepCalls = @ + 1,
                          !.prepConfig = ApplyConfig(EffectiveCrawlModelType),
                          !.request = NoRequest]
            /\ UNCHANGED <<calls, response, vps, api>>
       ELSE /\ orch' = [orch EXCEPT !.pc = "model", !.prepCalls = @ + 1,
                          !.prepConfig = ApplyConfig(EffectiveCrawlModelType),
                          !.request = NoRequest]
            /\ UNCHANGED <<cacheVars, calls, response, vps, api>>

\* prepareModel after getOrCreateContext returned: the model is built from
\* the cached content, or the handle is purged when that throws
prepareModelFromCache ==
    /\ orch.pc = "cache"
    /\ callers[Req].pc = "returned"
    /\ UNCHANGED <<cfg, eng>>
    /\ IF callers[Req].result # NoCache
       THEN \E ok \in BOOLEAN :
            IF ok
            THEN /\ orch' = [orch EXCEPT !.pc = "prepared",
                      !.usingCacheActual = TRUE,
                      !.request = CachedRequest(callers[Req].result,
                                     orch.prepConfig.finalBatchPrompt)]
                 /\ UNCHANGED <<cacheVars, calls, response, vps, api>>
            ELSE /\ InvalidateCache(Req, ReqKey)
                 /\ orch' = [orch EXCEPT !.pc = "purge"]
                 /\ UNCHANGED <<calls, response, vps, api>>
       ELSE /\ orch' = [orch EXCEPT !.pc = "model"]
            /\ UNCHANGED <<cacheVars, calls, response, vps, api>>

\* prepareModel: `await removePersistentEntry` of the purge has returned
prepareModelAfterPurge ==
    /\ orch.pc = "purge"
    /\ removePersistentEntryAwaited(Req)
    /\ orch' = [orch EXCEPT !.pc = "model"]
    /\ UNCHANGED <<cfg, eng>>
    /\ UNCHANGED <<cacheVars, calls, response, vps, api>>

\* prepareModel, non-cached setup: getGenerativeModel may throw
prepareModelNonCached ==
    /\ orch.pc = "model"
    /\ UNCHANGED <<cfg, eng>>
    /\ UNCHANGED <<cacheVars, calls, response, vps, api>>
    /\ \E ok \in BOOLEAN :
       IF ok
       THEN orch' = [orch EXCEPT !.pc = "prepared", !.usingCacheActual = FALSE,
                       !.request = NonCachedRequest(
                                      orch.prepConfig.systemInstructionText,
                                      orch.prepConfig.fewShotParts,
                                      orch.prepConfig.finalBatchPrompt)]
       ELSE orch' = PreparationThrew(orch)

\* executeWithRetry is entered and invokes the prepared call
executeWithRetry ==
    /\ orch.pc = "prepared"
    /\ orch' = [orch EXCEPT !.pc = "run"]
    /\ eng' = LoopTop([IdleEngine EXCEPT
                 !.modelName = ReqModel,
                 !.maxAttempts = MaxAttemptsOfPhase(orch.phase),
                 !.currentDelay = cfg.initialDelayMs,
                 !.modelPreparation =
                     ModelPreparationResult(orch.usingCacheActual,
                        IF orch.usingCacheActual THEN callers[Req].result
                                                 ELSE NoCache)])
    /\ UNCHANGED cfg
    /\ UNCHANGED <<cacheVars, calls, response, vps, api>>

\* the primary run has returned
primaryResolved ==
    /\ orch.pc = "run"
    /\ orch.phase = "primary"
    /\ eng.pc = "returned"
    /\ orch' = IF HasContent(eng.result)
               THEN [orch EXCEPT !.pc = "done", !.primaryModelResult = eng.result,
                       !.callsBefore = @ + eng.nCalls,
                       !.result = OrchResult(TRUE, FALSE, cfg.primaryModelName,
                                     cfg.crawlModel, "undefined",
                                     eng.result.responseText,
                                     eng.result.metaData)]
               ELSE [orch EXCEPT !.pc = "decide", !.primaryModelResult = eng.result,
                       !.callsBefore = @ + eng.nCalls,
                       !.primaryErrClass = eng.errClass]
    /\ eng' = IdleEngine
    /\ UNCHANGED cfg
    /\ UNCHANGED <<cacheVars, calls, response, vps, api>>

\* Phase 1: the primary did not succeed
fallbackDecision ==
    /\ orch.pc = "decide"
    /\ orch' = IF cfg.fallbackModelName = ""
               THEN [orch EXCEPT !.pc = "done",
                       !.result = OrchResult(FALSE, FALSE, cfg.primaryModelName,
                                     cfg.crawlModel,
                                     NoFallbackErrorType(orch.primaryModelResult,
                                                         cfg.primaryModelName),
                                     "", "null")]
               ELSE [orch EXCEPT !.pc = "prep", !.phase = "fallback"]
    /\ UNCHANGED <<cfg, eng>>
    /\ UNCHANGED <<cacheVars, calls, response, vps, api>>

\* the fallback run has returned
fallbackResolved ==
    /\ orch.pc = "run"
    /\ orch.phase = "fallback"
    /\ eng.pc = "returned"
    /\ orch' = IF HasContent(eng.result)
               THEN [orch EXCEPT !.pc = "done",
                       !.result = OrchResult(TRUE, FallbackSuccessUsedFallback,
                                     cfg.fallbackModelName,
                                     EffectiveCrawlModelType, "undefined",
                                     eng.result.responseText,
                                     eng.result.metaData)]
               ELSE [orch EXCEPT !.pc = "done",
                       !.result = OrchResult(FALSE, TRUE, cfg.fallbackModelName,
                                     EffectiveCrawlModelType,
                                     eng.result.finalErrorType, "", "null")]
    /\ UNCHANGED <<cfg, eng>>
    /\ UNCHANGED <<cacheVars, calls, response, vps, api>>

\* ----------------------------------------------- GeminiResponseHandlerService
\* Texts are sequences of one-character strings.
MaxStrLen == 2           \* longest string value of a generated response

\* the backtick, written "~" (TLA+ strings cannot hold the character itself)
Backtick == "~"

Fence == <<Backtick, Backtick, Backtick>>

Quote == "\""

\* \s of the regular expressions, the white space of JSON and of trim()
IsWhitespace(c) == c \in {" ", "\n"}

RECURSIVE SkipWhitespace(_, _)
\* first position >= i of t that holds no white space (Len(t) + 1 if none)
SkipWhitespace(t, i) ==
    IF i <= Len(t) /\ IsWhitespace(t[i]) THEN SkipWhitespace(t, i + 1) ELSE i

RECURSIVE SkipWhitespaceBack(_, _)
\* last position <= i of t that holds no white space (0 if none)
SkipWhitespaceBack(t, i) ==
    IF i >= 1 /\ IsWhitespace(t[i]) THEN SkipWhitespaceBack(t, i - 1) ELSE i

\* String.prototype.trim
trim(t) ==
    LET a == SkipWhitespace(t, 1)
        b == SkipWhitespaceBack(t, Len(t))
    IN IF a > b THEN <<>> ELSE SubSeq(t, a, b)

StartsWith(t, i, p) ==
    i + Len(p) - 1 <= Len(t) /\ SubSeq(t, i, i + Len(p) - 1) = p

\* the i flag of the wrapper regex, on the letters of `json`
LowerCase(c) ==
    CASE c = "J" -> "j" [] c = "S" -> "s" [] c = "O" -> "o" [] c = "N" -> "n"
      [] OTHER -> c

StartsWithIgnoreCase(t, i, p) ==
    /\ i + Len(p) - 1 <= Len(t)
    /\ \A n \in 1..Len(p) : LowerCase(t[i + n - 1]) = p[n]

Minimum(S) == CHOOSE x \in S : \A y \in S : x <= y

\* ^ and $ under the m flag
LineStart(t, i) == i = 1 \/ t[i - 1] = "\n"

LineEnd(t, i) == i > Len(t) \/ t[i] = "\n"

\* /^```(?:json)?\s*([\s\S]*?)\s*```$/im tried at position s: where group 1
\* starts, and the last positions of group 1 for which the rest matches
GroupStart(t, s) ==
    SkipWhitespace(t, IF StartsWithIgnoreCase(t, s + 3, <<"j", "s", "o", "n">>)
                      THEN s + 7 ELSE s + 3)

GroupEnds(t, s) ==
    {c \in (GroupStart(t, s) - 1)..Len(t) :
        LET w == SkipWhitespace(t, c + 1)
        IN StartsWith(t, w, Fence) /\ LineEnd(t, w + 3)}

\* text.match(...): the leftmost match, its lazy group 1
markdownJsonMatch(t) ==
    LET starts == {s \in 1..Len(t) : /\ LineStart(t, s)
                                     /\ StartsWith(t, s, Fence)
                                     /\ GroupEnds(t, s) # {}}
    IN IF starts = {}
       THEN [found |-> FALSE, group |-> <<>>]
       ELSE LET s == Minimum(starts)
            IN [found |-> TRUE,
                group |-> SubSeq(t, GroupStart(t, s), Minimum(GroupEnds(t, s)))]

stripMarkdownJsonWrapper(text) ==
    IF trim(text) = <<>> THEN <<>>
    ELSE LET m == markdownJsonMatch(text)
         IN IF m.found /\ m.group # <<>> THEN trim(m.group) ELSE text

RECURSIVE RemoveCommaBefore(_, _, _)
\* text.replace(/,(\s*X)/g, '$1') from position i on, X the closing character
RemoveCommaBefore(t, i, closer) ==
    IF i > Len(t) THEN <<>>
    ELSE LET w == SkipWhitespace(t, i + 1)
         IN IF t[i] = "," /\ w <= Len(t) /\ t[w] = closer
            THEN SubSeq(t, i + 1, w) \o RemoveCommaBefore(t, w + 1, closer)
            ELSE <<t[i]>> \o RemoveCommaBefore(t, i + 1, closer)

\* step 4 of processResponse
FixTrailingCommas_MutantKeeps(text) == text

FixTrailingCommas(text) ==
    IF trim(text) # <<>>
    THEN RemoveCommaBefore(RemoveCommaBefore(text, 1, "}"), 1, "]")
    ELSE text

\* JSON.parse on texts made of objects, strings without escapes and numbers.
\* A value is <<"str", chars>>, <<"num", digits>> or <<"obj", members>>, the
\* members a sequence of <<key, value>> in insertion order.
ParseFail == [ok |-> FALSE, val |-> <<>>, next |-> 0]

Digits == {"1", "2"}

ParseString(t, i) ==
    IF i > Len(t) \/ t[i] # Quote THEN ParseFail
    ELSE LET closes == {j \in (i + 1)..Len(t) : t[j] = Quote}
         IN IF closes = {} THEN ParseFail
            ELSE LET j == Minimum(closes)
                 IN IF \E n \in (i + 1)..(j - 1) : t[n] = "\n"
                    THEN ParseFail
                    ELSE [ok |-> TRUE, val |-> SubSeq(t, i + 1, j - 1),
                          next |-> j + 1]

RECURSIVE SkipDigits(_, _)
SkipDigits(t, i) ==
    IF i <= Len(t) /\ t[i] \in Digits THEN SkipDigits(t, i + 1) ELSE i

\* a repeated key keeps its place and takes the later value
SetMember(members, key, v) ==
    IF \E n \in 1..Len(members) : members[n][1] = key
    THEN [n \in 1..Len(members) |->
             IF members[n][1] = key THEN <<key, v>> ELSE members[n]]
    ELSE Append(members, <<key, v>>)

RECURSIVE ParseValue(_, _)
RECURSIVE ParseMembers(_, _, _)
ParseValue(t, i) ==
    LET j == SkipWhitespace(t, i)
    IN IF j > Len(t) THEN ParseFail
       ELSE IF t[j] = Quote
       THEN LET r == ParseString(t, j)
            IN IF r.ok THEN [r EXCEPT !.val = <<"str", r.val>>] ELSE ParseFail
       ELSE IF t[j] \in Digits
       THEN [ok |-> TRUE, val |-> <<"num", SubSeq(t, j, SkipDigits(t, j) - 1)>>,
             next |-> SkipDigits(t, j)]
       ELSE IF t[j] = "{"
       THEN LET k == SkipWhitespace(t, j + 1)
            IN IF k <= Len(t) /\ t[k] = "}"
               THEN [ok |-> TRUE, val |-> <<"obj", <<>>>>, next |-> k + 1]
               ELSE ParseMembers(t, k, <<>>)
       ELSE ParseFail

ParseMembers(t, i, members) ==
    LET key == ParseString(t, SkipWhitespace(t, i))
        c == SkipWhitespace(t, key.next)
    IN IF ~key.ok \/ c > Len(t) THEN ParseFail
       ELSE IF t[c] # ":" THEN ParseFail
       ELSE LET v == ParseValue(t, c + 1)
                d == SkipWhitespace(t, v.next)
            IN IF ~v.ok \/ d > Len(t) THEN ParseFail
               ELSE IF t[d] = ","
               THEN ParseMembers(t, d + 1, SetMember(members, key.val, v.val))
               ELSE IF t[d] = "}"
               THEN [ok |-> TRUE,
                     val |-> <<"obj", SetMember(members, key.val, v.val)>>,
                     next |-> d + 1]
               ELSE ParseFail

JSONParse(t) ==
    LET r == ParseValue(t, 1)
    IN IF r.ok /\ SkipWhitespace(t, r.next) > Len(t)
       THEN [ok |-> TRUE, val |-> r.val]
       ELSE [ok |-> FALSE, val |-> <<>>]

\* JSON.stringify of a value, compact
RECURSIVE SerializeValue(_)
RECURSIVE SerializeMembers(_, _)
SerializeValue(v) ==
    IF v[1] = "obj" THEN <<"{">> \o SerializeMembers(v[2], 1) \o <<"}">>
    ELSE IF v[1] = "str" THEN <<Quote>> \o v[2] \o <<Quote>>
    ELSE v[2]

SerializeMembers(members, n) ==
    IF n > Len(members) THEN <<>>
    ELSE <<Quote>> \o members[n][1] \o <<Quote, ":">>
         \o SerializeValue(members[n][2])
         \o (IF n < Len(members) THEN <<",">> ELSE <<>>)
         \o SerializeMembers(members, n + 1)

\* the object written with a trailing comma (and a gap) before its closing }
WithTrailingComma(members, gap) ==
    <<"{">> \o SerializeMembers(members, 1) \o <<",">> \o gap \o <<"}">>

\* a text wrapped in a fenced block
Fenced(opener, text) == opener \o text \o <<"\n">> \o Fence

\* responses of the provider: the texts the model generates
StrChars == {"x", ",", "}", "]", " "}

StringsUpTo(n) == UNION {[1..m -> StrChars] : m \in 0..n}

FirstValues ==
    {<<"num", <<"1">>>>} \cup {<<"str", str>> : str \in StringsUpTo(MaxStrLen)}

SecondValues ==
    {<<"num", <<"2">>>>, <<"str", <<"x">>>>,
     <<"obj", << <<(<<"c">>), <<"num", <<"1">>>>>> >>>>}

Objects ==
    {<< <<(<<"a">>), v>> >> : v \in FirstValues}
    \cup {<< <<(<<"a">>), v>>, <<(<<"b">>), w>> >> :
             v \in FirstValues, w \in SecondValues}

Gaps == {<<>>, <<" ">>, <<"\n">>}

Openers ==
    {Fence \o <<"j", "s", "o", "n", "\n">>, Fence \o <<"\n">>,
     Fence \o <<"J", "S", "O", "N", " ">>}

\* generations cut off inside the first string value: {"a":"<word>
TruncatedWords == {"x", "unavailable", "cachedcontent not found", "429", "Safety"}

TruncatedTexts ==
    {<<"{", Quote, "a", Quote, ":", Quote, w>> : w \in TruncatedWords}

SdkResult(hasResponse, blockReason, kind, object, text, usageMetadata) ==
    [hasResponse |-> hasResponse, blockReason |-> blockReason, kind |-> kind,
     object |-> object, text |-> text, usageMetadata |-> usageMetadata]

SdkResults ==
    {SdkResult(FALSE, b, "none", <<>>, <<>>, "null") : b \in {"", "SAFETY"}}
    \cup {SdkResult(TRUE, "SAFETY", "plain", o, SerializeValue(<<"obj", o>>),
                    "usage") : o \in {<< <<(<<"a">>), <<"num", <<"1">>>>>> >>}}
    \cup {SdkResult(TRUE, "", "empty", <<>>, t, u) :
             t \in {<<>>, <<" ">>, Fence \o <<"\n">> \o Fence},
             u \in {"null", "usage"}}
    \cup {SdkResult(TRUE, "", "plain", o, SerializeValue(<<"obj", o>>), "usage") :
             o \in Objects}
    \cup {SdkResult(TRUE, "", "truncated", <<>>, t, "usage") :
             t \in TruncatedTexts}
    \cup {SdkResult(TRUE, "", "plain_comma", o, WithTrailingComma(o, g),
                    "usage") : o \in Objects, g \in Gaps}
    \cup {SdkResult(TRUE, "", "fenced_comma", o,
                    Fenced(op, WithTrailingComma(o, g)), "usage") :
             o \in Objects, g \in Gaps, op \in Openers}

IdleResponse ==
    [pc |-> "idle", sdkResult |-> SdkResult(FALSE, "", "none", <<>>, <<>>, "null"),
     responseText |-> <<>>, metaData |-> "null", error |-> "none",
     errorMarks |-> {}, cleanInput |-> <<>>, cleaned |-> <<>>]

Threw(r, error) == [r EXCEPT !.pc = "threw", !.error = error]

\* processedText.substring(0,100) quoted by the invalid-JSON error
SnippetLength == 100

\* The substrings looked for by the retry engine, by group.  A text is a
\* sequence of symbols; a symbol is a character or one of these words.
MarkWords ==
    [m \in ErrorMarks |->
        CASE m = "5xx" -> {"503", "500", "unavailable", "internal"}
          [] m = "cache" -> {"cachedcontent not found",
                             "permission denied on cached content",
                             "cannot find cached content"}
          [] m = "429" -> {"429", "resource_exhausted", "rate limit"}
          [] m = "safety" -> {"blocked", "safety"}]

\* error.message.toLowerCase(), symbol by symbol
toLowerCase(c) == IF c = "Safety" THEN "safety" ELSE LowerCase(c)

\* the groups found in 'Gemini response is not valid JSON: <parser message>.
\* Processed text snippet (that failed): <first 100 symbols of the text>';
\* the fixed words of the message belong to no group
InvalidJsonMessageMarks(processedText) ==
    {m \in ErrorMarks :
        \E i \in 1..Min(Len(processedText), SnippetLength) :
           toLowerCase(processedText[i]) \in MarkWords[m]}

ThrewInvalidJson(r, processedText) ==
    [Threw(r, "invalid_json") EXCEPT
        !.errorMarks = InvalidJsonMessageMarks(processedText)]

\* processResponse(sdkResult)
processResponse ==
    /\ response.pc = "start"
    /\ LET sdk == response.sdkResult
           processedText ==
               FixTrailingCommas(stripMarkdownJsonWrapper(sdk.text))
       IN response' =
            IF ~sdk.hasResponse
            THEN IF sdk.blockReason # "" THEN Threw(response, "safety_block")
                 ELSE Threw(response, "missing_response")
            ELSE IF sdk.blockReason # "" THEN Threw(response, "safety_block")
            ELSE IF trim(processedText) = <<>>
            THEN ThrewInvalidJson(response, processedText)
            ELSE IF ~JSONParse(processedText).ok
            THEN ThrewInvalidJson(response, processedText)
            ELSE [response EXCEPT !.pc = "returned",
                     !.responseText = processedText,
                     !.metaData = sdk.usageMetadata]
    /\ UNCHANGED <<cacheVars, calls, orchVars, vps, api>>

\* textToClean.indexOf('{') and textToClean.lastIndexOf('}'), 0 for -1
IndexOf(t, c) ==
    IF \E i \in 1..Len(t) : t[i] = c
    THEN Minimum({i \in 1..Len(t) : t[i] = c}) ELSE 0

LastIndexOf(t, c) ==
    IF \E i \in 1..Len(t) : t[i] = c
    THEN CHOOSE i \in 1..Len(t) : t[i] = c /\ \A j \in (i + 1)..Len(t) : t[j] # c
    ELSE 0

\* the try / catch around JSON.parse(potentialJson)
ValidatedSubstring_MutantNoValidation(potentialJson) == trim(potentialJson)

ValidatedSubstring(potentialJson) ==
    IF JSONParse(potentialJson).ok THEN trim(potentialJson) ELSE <<>>

\* the value returned by cleanJsonResponse(responseText)
CleanedResponseText(responseText) ==
    IF trim(responseText) = <<>> THEN <<>>
    ELSE LET textToClean == stripMarkdownJsonWrapper(responseText)
             firstCurly == IndexOf(textToClean, "{")
             lastCurly == LastIndexOf(textToClean, "}")
         IN IF trim(textToClean) = <<>> THEN <<>>
            ELSE IF firstCurly # 0 /\ lastCurly # 0 /\ lastCurly >= firstCurly
            THEN ValidatedSubstring(SubSeq(textToClean, firstCurly, lastCurly))
            ELSE <<>>

\* cleanJsonResponse, called on the text returned by processResponse or
\* directly on the raw text of the response
cleanJsonResponse ==
    /\ response.pc \in {"start", "returned"}
    /\ LET responseText == IF response.pc = "start"
                           THEN response.sdkResult.text
                           ELSE response.responseText
       IN response' = [response EXCEPT !.pc = "cleaned",
                          !.cleanInput = responseText,
                          !.cleaned = CleanedResponseText(responseText)]
    /\ UNCHANGED <<cacheVars, calls, orchVars, vps, api>>

\* ------------------------------------------------------ VPS worker services
NumTasks == 3            \* tasks handed to processTask

Tasks == 1..NumTasks

\* IRateLimiterOptions built by getLimiter from the configured values
LimiterOptions(modelName) ==
    [points |-> "VPS_GEMINI_RATE_LIMIT_POINTS",
     duration |-> "VPS_GEMINI_RATE_LIMIT_DURATION",
     blockDuration |-> "VPS_GEMINI_RATE_LIMIT_BLOCK_DURATION",
     keyPrefix |-> <<"model_", modelName>>]

\* VpsTaskResponse
TaskSuccess(data) ==
    [success |-> TRUE, data |-> data, errorName |-> "", details |-> -1]

TaskFailure(name, details) ==
    [success |-> FALSE, data |-> "", errorName |-> name, details |-> details]

NoTaskResponse == TaskFailure("", -1)

IdleTask ==
    [pc |-> "idle", modelName |-> "", limiter |-> 0, msBeforeNext |-> -1,
     generateContentCalls |-> 0, response |-> NoTaskResponse]

\* modelRateLimitersInternal maps a model to the index of its instance in
\* `instances`, the RateLimiterMemory objects constructed so far
IdleVps ==
    [modelRateLimitersInternal |-> [m \in ModelNames |-> 0],
     instances |-> <<>>,
     tasks |-> [t \in Tasks |-> IdleTask]]

\* if (!this.modelRateLimitersInternal.has(modelName))
HasLimiter_MutantNever(map, modelName) == FALSE

HasLimiter(map, modelName) == map[modelName] # 0

\* the error executeSdkCall throws when consume rejects, as processTask
\* reports it: name and details.msBeforeNext
RateLimitErrorResponse_MutantRenamed(msBeforeNext) ==
    TaskFailure("Error", msBeforeNext)

RateLimitErrorResponse(msBeforeNext) ==
    TaskFailure("VpsRateLimitError", msBeforeNext)

\* processTask: getLimiter (outside the try), then executeSdkCall up to the
\* await of limiterInstance.consume
processTask(t) ==
    /\ vps.tasks[t].pc = "idle"
    /\ \E m \in ModelNames, created \in BOOLEAN, prepared \in BOOLEAN :
       LET map == vps.modelRateLimitersInternal
           has == HasLimiter(map, m)
           instances1 == IF has \/ ~created THEN vps.instances
                         ELSE Append(vps.instances, LimiterOptions(m))
           map1 == IF has \/ ~created THEN map
                   ELSE [map EXCEPT ![m] = Len(instances1)]
       IN /\ (has => created)
          /\ (~(has \/ created) => prepared)
          /\ vps' = [vps EXCEPT
               !.modelRateLimitersInternal = map1,
               !.instances = instances1,
               !.tasks[t] =
                  IF ~(has \/ created)
                  THEN \* new RateLimiterMemory threw: getLimiter rethrows
                       [IdleTask EXCEPT !.pc = "raised", !.modelName = m]
                  ELSE IF ~prepared
                  THEN \* prepareModelForVps threw: caught by processTask
                       [IdleTask EXCEPT !.pc = "done", !.modelName = m,
                          !.limiter = map1[m],
                          !.response = TaskFailure("Error", -1)]
                  ELSE [IdleTask EXCEPT !.pc = "consuming", !.modelName = m,
                          !.limiter = map1[m]]]
    /\ UNCHANGED <<cacheVars, calls, response, orchVars, api>>

\* await limiterInstance.consume(rateLimitKey, 1) settles
consumeSettles(t) ==
    /\ vps.tasks[t].pc = "consuming"
    /\ \/ vps' = [vps EXCEPT !.tasks[t].pc = "generating",
                             !.tasks[t].generateContentCalls = @ + 1]
       \/ \E ms \in MsBeforeNextValues :
             vps' = [vps EXCEPT !.tasks[t].pc = "done",
                        !.tasks[t].msBeforeNext = ms,
                        !.tasks[t].response = RateLimitErrorResponse(ms)]
    /\ UNCHANGED <<cacheVars, calls, response, orchVars, api>>

\* await modelPrep.model.generateContent(...) settles
generateContentSettles(t) ==
    /\ vps.tasks[t].pc = "generating"
    /\ \E ok \in BOOLEAN :
          vps' = [vps EXCEPT !.tasks[t].pc = "done",
                     !.tasks[t].response =
                        IF ok THEN TaskSuccess("result")
                        ELSE TaskFailure("Error", -1)]
    /\ UNCHANGED <<cacheVars, calls, response, orchVars, api>>

\* ----------------------------------------------------------- GeminiApiService
MaxApiCalls == 3         \* calls of extractInformation / extractCfp / determineLinks
MaxInits == 2            \* calls of init()

\* API_TYPE_EXTRACT, API_TYPE_DETERMINE, API_TYPE_CFP
PublicApiTypes == {"extract", "determine", "cfp"}

CrawlModelTypes == {"tuned", "non-tuned"}

\* the counter is reset at 100 * VPS_WORKER_LOAD_RATIO
VpsCounterResetFactor == 100

\* what the most recent call of a public method did before its first await
\* (or its return)
ApiRequest(apiType, crawlModel, outcome, currentIndex, listLength, selectedModelName) ==
    [apiType |-> apiType, crawlModel |-> crawlModel, outcome |-> outcome,
     currentIndex |-> currentIndex, listLength |-> listLength,
     selectedModelName |-> selectedModelName]

NoApiRequest == ApiRequest("", "", "none", 0, 0, "")

\* the service after construction; tunedModelNames, nonTunedModelNames and
\* vpsWorkerLoadRatio are the values of appConfig.  nCalls counts the calls
\* of the public methods, awaitingVps / awaitingOrchestrator the calls
\* suspended on axios.post / orchestrateApiCall, returned the responses given.
IdleApi ==
    [serviceInitialized |-> FALSE,
     modelIndices |-> [t \in PublicApiTypes |-> 0],
     vpsRequestCounter |-> 0,
     tunedModelNames |-> <<>>, nonTunedModelNames |-> <<>>,
     vpsWorkerLoadRatio |-> 0,
     inits |-> <<>>,
     nCalls |-> 0, nRejected |-> 0, last |-> NoApiRequest,
     awaitingVps |-> 0, awaitingOrchestrator |-> 0,
     returned |-> [default |-> 0, result |-> 0]]

\* init(): returns at once when initialized, otherwise awaits loadMap
init ==
    /\ Len(api.inits) < MaxInits
    /\ api' = [api EXCEPT !.inits =
                  Append(@, IF api.serviceInitialized THEN "returned"
                                                      ELSE "loading")]
    /\ UNCHANGED <<cacheVars, calls, response, vps, orchVars>>

\* loadMap settles: the map is read from the file (an absent or empty file
\* gives the empty map), or reset to empty when reading or parsing fails;
\* init sets serviceInitialized on success and swallows the failure
loadMapSettles(i) ==
    /\ i \in 1..Len(api.inits)
    /\ api.inits[i] = "loading"
    /\ \E ok \in BOOLEAN :
          /\ persistentCacheNameMapInternal' =
                IF ok THEN cacheMapFile ELSE [k \in CacheKeys |-> NoCache]
          /\ api' = [api EXCEPT
                        !.inits[i] = IF ok THEN "initialized" ELSE "failed",
                        !.serviceInitialized = @ \/ ok]
    /\ UNCHANGED <<contextCachesInternal, cachePromisesInternal, cacheMapFile,
                   cacheMapDirExists, cacheManagerAvailable, ops, callers>>
    /\ UNCHANGED <<calls, response, vps, orchVars>>

\* ensureInitialized returns (does not throw)
ensureInitialized_MutantNoCheck(serviceInitialized) == TRUE

ensureInitialized(serviceInitialized) == serviceInitialized

\* modelList[currentIndex], with the 0-based index of the source
SelectedModelName(modelList, currentIndex) ==
    IF currentIndex + 1 <= Len(modelList) THEN modelList[currentIndex + 1]
    ELSE "undefined"

\* executeApiCallLogic up to its first await (or its return)
executeApiCallLogic(apiType, initialCrawlModelType) ==
    /\ api.nCalls < MaxApiCalls
    /\ LET ratio == api.vpsWorkerLoadRatio
           counted == ratio > 0
           counter1 == IF counted THEN api.vpsRequestCounter + 1
                                  ELSE api.vpsRequestCounter
           shouldUseVps == counted /\ counter1 % ratio = 0
           counter2 == IF counted /\ counter1 >= VpsCounterResetFactor * ratio
                       THEN 0 ELSE counter1
           modelList == IF initialCrawlModelType = "tuned"
                        THEN api.tunedModelNames ELSE api.nonTunedModelNames
           currentIndex == api.modelIndices[apiType]
           req(outcome) ==
               ApiRequest(apiType, initialCrawlModelType, outcome, 0, 0, "")
           a == [api EXCEPT !.nCalls = @ + 1]
       IN api' =
            IF ~ensureInitialized(api.serviceInitialized)
            THEN [a EXCEPT !.last = req("rejected"), !.nRejected = @ + 1]
            ELSE IF shouldUseVps
            THEN [a EXCEPT !.vpsRequestCounter = counter2,
                           !.last = req("vps"),
                           !.awaitingVps = @ + 1]
            ELSE IF Len(modelList) = 0
            THEN [a EXCEPT !.vpsRequestCounter = counter2,
                           !.last = req("no_models"),
                           !.returned.default = @ + 1]
            ELSE [a EXCEPT !.vpsRequestCounter = counter2,
                    !.modelIndices[apiType] = (currentIndex + 1) % Len(modelList),
                    !.last = ApiRequest(apiType, initialCrawlModelType,
                                "orchestrator", currentIndex, Len(modelList),
                                SelectedModelName(modelList, currentIndex)),
                    !.awaitingOrchestrator = @ + 1]
    /\ UNCHANGED <<cacheVars, calls, response, vps, orchVars>>

\* axios.post settles: the worker's result on success, the default response
\* on a failure reported by the worker or a network error
vpsCallSettles ==
    /\ api.awaitingVps > 0
    /\ \E resp \in {"result", "default"} :
          api' = [api EXCEPT !.awaitingVps = @ - 1,
                             !.returned[resp] = @ + 1]
    /\ UNCHANGED <<cacheVars, calls, response, vps, orchVars>>

\* orchestrateApiCall settles: the cleaned text on success, the default
\* response on failure or on a raised error
orchestrateApiCallSettles ==
    /\ api.awaitingOrchestrator > 0
    /\ \E resp \in {"result", "default"} :
          api' = [api EXCEPT !.awaitingOrchestrator = @ - 1,
                             !.returned[resp] = @ + 1]
    /\ UNCHANGED <<cacheVars, calls, response, vps, orchVars>>

\* ------------------------------------------------------------ specifications
DelayConfigs == {<<100, 150>>, <<100, 2000>>, <<1000, 150>>}

DefaultConfig ==
    [primaryModelName |-> "m1", fallbackModelName |-> "m2",
     crawlModel |-> "non-tuned", maxRetries |-> 1, initialDelayMs |-> 100,
     maxDelayMs |-> 150, allowCacheForNonTuned |-> TRUE,
     \* generalApiTypeSettings[apiType]
     systemInstruction |-> "sys", allowFewShotForNonTuned |-> TRUE,
     fewShotParts |-> <<"in1", "out1">>,
     responseMimeType |-> "application/json", responseSchema |-> TRUE,
     systemInstructionPrefixForNonTunedModel |-> "pre"]

CacheInit ==
    /\ contextCachesInternal = [k \in CacheKeys |-> NoCache]
    /\ cachePromisesInternal = [k \in CacheKeys |-> 0]
    /\ persistentCacheNameMapInternal \in [CacheKeys -> {NoCache, 1}]
    /\ cacheMapFile = persistentCacheNameMapInternal
    /\ cacheMapDirExists \in BOOLEAN
    /\ (\E k \in CacheKeys : persistentCacheNameMapInternal[k] # NoCache)
          => cacheMapDirExists
    /\ cacheManagerAvailable \in BOOLEAN
    /\ ops = <<>>
    /\ callers = [c \in Callers |-> IdleCaller]
    /\ calls = 0

\* the cache service used by concurrent requests
InitCache ==
    /\ CacheInit
    /\ response = IdleResponse
    /\ vps = IdleVps
    /\ api = IdleApi
    /\ cfg = DefaultConfig
    /\ orch = IdleOrch
    /\ eng = IdleEngine

NextCache ==
    \/ \E c \in Callers, k \in CacheKeys :
          /\ calls < MaxCalls
          /\ getOrCreateContext(c, k)
          /\ calls' = calls + 1
          /\ UNCHANGED <<response, vps, api>>
          /\ UNCHANGED orchVars
    \/ \E c \in Callers : AwaitCachePromise(c) /\ UNCHANGED <<orchVars, calls, response, vps, api>>
    \/ \E o \in 1..MaxOps : getSdkCacheSettles(o) /\ UNCHANGED <<orchVars, calls, response, vps, api>>
    \/ \E o \in 1..MaxOps : createSdkCacheSettles(o) /\ UNCHANGED <<orchVars, calls, response, vps, api>>
    \/ \E o \in 1..MaxOps : saveMapMkdirSettles(o) /\ UNCHANGED <<orchVars, calls, response, vps, api>>
    \/ \E o \in 1..MaxOps : saveMapWriteSettles(o) /\ UNCHANGED <<orchVars, calls, response, vps, api>>
    \/ \E c \in Callers, k \in CacheKeys :
          /\ calls < MaxCalls
          /\ InvalidateCache(c, k)
          /\ calls' = calls + 1
          /\ UNCHANGED <<response, vps, api>>
          /\ UNCHANGED orchVars
    \/ \E c \in Callers : removePersistentEntry(c) /\ UNCHANGED <<orchVars, calls, response, vps, api>>

SpecCache == InitCache /\ [][NextCache]_vars

\* a step in which the file-system call that settles (mkdir, writeFile)
\* succeeds
IoSucceeds ==
    /\ \A o \in 1..Len(ops) :
          /\ (ops[o].pc \in {"save_mkdir", "rm_mkdir"} /\ ops'[o].pc # ops[o].pc)
                => ops'[o].pc \in {"save_write", "rm_write"}
          /\ (ops[o].pc \in {"save_write", "rm_write"} /\ ops'[o].pc # ops[o].pc)
                => cacheMapFile' = ops[o].snap
    /\ \A c \in Callers :
          /\ (callers[c].pc = "inv_mkdir" /\ callers'[c].pc # "inv_mkdir")
                => callers'[c].pc = "inv_write"
          /\ (callers[c].pc = "inv_write" /\ callers'[c].pc # "inv_write")
                => cacheMapFile' = callers[c].snap

\* the cache service used by concurrent requests on a file system whose
\* calls all succeed
NextPersist ==
    \/ \E c \in Callers, k \in CacheKeys :
          /\ calls < MaxCalls
          /\ getOrCreateContext(c, k)
          /\ calls' = calls + 1
          /\ UNCHANGED <<response, vps, api>>
          /\ UNCHANGED orchVars
    \/ \E c \in Callers : AwaitCachePromise(c) /\ UNCHANGED <<orchVars, calls, response, vps, api>>
    \/ \E o \in 1..MaxOps : getSdkCacheSettles(o) /\ UNCHANGED <<orchVars, calls, response, vps, api>>
    \/ \E o \in 1..MaxOps : createSdkCacheSettles(o) /\ UNCHANGED <<orchVars, calls, response, vps, api>>
    \/ \E o \in 1..MaxOps : saveMapMkdirSettles(o) /\ IoSucceeds /\ UNCHANGED <<orchVars, calls, response, vps, api>>
    \/ \E o \in 1..MaxOps : saveMapWriteSettles(o) /\ IoSucceeds /\ UNCHANGED <<orchVars, calls, response, vps, api>>
    \/ \E c \in Callers, k \in CacheKeys :
          /\ calls < MaxCalls
          /\ InvalidateCache(c, k)
          /\ calls' = calls + 1
          /\ UNCHANGED <<response, vps, api>>
          /\ UNCHANGED orchVars
    \/ \E c \in Callers : removePersistentEntry(c) /\ IoSucceeds /\ UNCHANGED <<orchVars, calls, response, vps, api>>

SpecPersist == InitCache /\ [][NextPersist]_vars

\* one run of executeWithRetry with any attempt budget, on the cache service
callExecuteWithRetry ==
    /\ orch.pc = "engine_only"
    /\ eng.pc = "idle"
    /\ \E prep \in {NoPreparation, ModelPreparationResult(TRUE, 1)} :
          eng' = LoopTop([IdleEngine EXCEPT
                    !.modelName = ReqModel,
                    !.maxAttempts = cfg.maxRetries,
                    !.currentDelay = cfg.initialDelayMs,
                    !.modelPreparation = prep])
    /\ UNCHANGED <<cfg, orch>>
    /\ UNCHANGED <<cacheVars, calls, response, vps, api>>

InitRetry ==
    /\ CacheInit
    /\ response = IdleResponse
    /\ vps = IdleVps
    /\ api = IdleApi
    /\ \E p \in {NoCache, 1} :
          persistentCacheNameMapInternal = [k \in CacheKeys |-> p]
    /\ \E d \in DelayConfigs, n \in 1..MaxRetries :
          cfg = [DefaultConfig EXCEPT !.maxRetries = n,
                    !.initialDelayMs = d[1], !.maxDelayMs = d[2]]
    /\ orch = [IdleOrch EXCEPT !.pc = "engine_only"]
    /\ eng = IdleEngine

NextRetry ==
    \/ callExecuteWithRetry
    \/ apiCallReturns
    \/ apiCallRateLimited
    \/ rateLimitWaitDone
    \/ apiCallThrows
    \/ invalidationDone
    \/ backoffWaitDone
    \/ removePersistentEntry(Req) /\ UNCHANGED <<orchVars, calls, response, vps, api>>

SpecRetry == InitRetry /\ [][NextRetry]_vars

\* The limiter may reject the call any number of times.  A rejection beyond
\* MaxRateLimitHits takes the same branch of the catch block; the history
\* counters of the run (nRateLimited, nCalls) stay where they are.
apiCallRateLimitedBeyond ==
    /\ eng.pc = "calling"
    /\ eng.nRateLimited >= MaxRateLimitHits
    /\ \E ms \in MsBeforeNextValues :
          eng' = [eng EXCEPT !.pc = "rl_wait_beyond", !.waitMs = ms]
    /\ UNCHANGED <<cfg, orch>>
    /\ UNCHANGED <<cacheVars, calls, response, vps, api>>

rateLimitWaitBeyondDone ==
    /\ eng.pc = "rl_wait_beyond"
    /\ eng' = [AfterRateLimitWait(eng) EXCEPT !.nCalls = eng.nCalls]
    /\ UNCHANGED <<cfg, orch>>
    /\ UNCHANGED <<cacheVars, calls, response, vps, api>>

NextRetryUnbounded ==
    \/ callExecuteWithRetry
    \/ apiCallReturns
    \/ apiCallRateLimited
    \/ rateLimitWaitDone
    \/ apiCallRateLimitedBeyond
    \/ rateLimitWaitBeyondDone
    \/ apiCallThrows
    \/ invalidationDone
    \/ backoffWaitDone
    \/ removePersistentEntry(Req) /\ UNCHANGED <<orchVars, calls, response, vps, api>>

\* every invocation of the prepared call settles, every timer fires and
\* every awaited invalidation returns
RetryFairness ==
    /\ WF_vars(apiCallReturns \/ apiCallRateLimited \/ apiCallRateLimitedBeyond
                   \/ apiCallThrows)
    /\ WF_vars(rateLimitWaitDone)
    /\ WF_vars(rateLimitWaitBeyondDone)
    /\ WF_vars(backoffWaitDone)
    /\ WF_vars(invalidationDone)
    /\ WF_vars(removePersistentEntry(Req)
                  /\ UNCHANGED <<orchVars, calls, response, vps, api>>)

SpecRetryUnbounded == InitRetry /\ [][NextRetryUnbounded]_vars /\ RetryFairness

\* one orchestrated request, with the cache service it uses
InitOrch ==
    /\ CacheInit
    /\ response = IdleResponse
    /\ vps = IdleVps
    /\ api = IdleApi
    /\ \E p \in {NoCache, 1} :
          persistentCacheNameMapInternal = [k \in CacheKeys |-> p]
    /\ \E pm \in {"", "m1"}, fm \in {"", "m2"}, t \in {"tuned", "non-tuned"},
          n \in 1..MaxFallbackRetries, ac \in BOOLEAN :
          cfg = [DefaultConfig EXCEPT !.primaryModelName = pm,
                    !.fallbackModelName = fm, !.crawlModel = t,
                    !.maxRetries = n, !.allowCacheForNonTuned = ac]
    /\ orch = [IdleOrch EXCEPT !.pc = "start"]
    /\ eng = IdleEngine

NextOrch ==
    \/ orchestrateApiCall
    \/ prepareForApiCall
    \/ prepareModelFromCache
    \/ prepareModelAfterPurge
    \/ prepareModelNonCached
    \/ executeWithRetry
    \/ apiCallReturns
    \/ apiCallRateLimited
    \/ rateLimitWaitDone
    \/ apiCallThrows
    \/ invalidationDone
    \/ backoffWaitDone
    \/ primaryResolved
    \/ fallbackDecision
    \/ fallbackResolved
    \/ AwaitCachePromise(Req) /\ UNCHANGED <<orchVars, calls, response, vps, api>>
    \/ \E o \in 1..MaxOps : getSdkCacheSettles(o) /\ UNCHANGED <<orchVars, calls, response, vps, api>>
    \/ \E o \in 1..MaxOps : createSdkCacheSettles(o) /\ UNCHANGED <<orchVars, calls, response, vps, api>>
    \/ \E o \in 1..MaxOps : saveMapMkdirSettles(o) /\ UNCHANGED <<orchVars, calls, response, vps, api>>
    \/ \E o \in 1..MaxOps : saveMapWriteSettles(o) /\ UNCHANGED <<orchVars, calls, response, vps, api>>
    \/ removePersistentEntry(Req) /\ UNCHANGED <<orchVars, calls, response, vps, api>>

SpecOrch == InitOrch /\ [][NextOrch]_vars

\* one preparation (prepareForApiCall with prepareModel) under every
\* configuration of the api type
\* The examples of an api type in the order of sortedInputKeys: for each
\* input key its value and the value of the output key with the same suffix
\* ("" when missing or empty).
FewShotExample(input, output) == [input |-> input, output |-> output]

FewShotConfigs ==
    {<<>>, <<FewShotExample("in1", "out1")>>,
     <<FewShotExample("in2", ""), FewShotExample("in3", "out3")>>}

RECURSIVE prepareFewShotParts(_, _)
\* the forEach over sortedInputKeys, from example i on
prepareFewShotParts(examples, i) ==
    IF i > Len(examples) THEN <<>>
    ELSE LET inputValue == examples[i].input
             outputValue == examples[i].output
         IN (IF inputValue # "" THEN <<inputValue>> ELSE <<>>)
            \o (IF inputValue # "" /\ outputValue # ""
                THEN <<outputValue>> ELSE <<>>)
            \o prepareFewShotParts(examples, i + 1)

FewShotPartsValues == {prepareFewShotParts(c, 1) : c \in FewShotConfigs}

InitPrepare ==
    /\ CacheInit
    /\ response = IdleResponse
    /\ vps = IdleVps
    /\ api = IdleApi
    /\ \E t \in {"tuned", "non-tuned"}, ac \in BOOLEAN,
          si \in {"", "sys"}, af \in BOOLEAN, fs \in FewShotPartsValues,
          mt \in {"", "application/json", "text/plain"}, rs \in BOOLEAN,
          px \in {"", "pre"} :
          cfg = [DefaultConfig EXCEPT !.crawlModel = t,
                    !.allowCacheForNonTuned = ac, !.systemInstruction = si,
                    !.allowFewShotForNonTuned = af, !.fewShotParts = fs,
                    !.responseMimeType = mt, !.responseSchema = rs,
                    !.systemInstructionPrefixForNonTunedModel = px]
    /\ orch = [IdleOrch EXCEPT !.pc = "prep"]
    /\ eng = IdleEngine

NextPrepare ==
    \/ prepareForApiCall
    \/ prepareModelFromCache
    \/ prepareModelAfterPurge
    \/ prepareModelNonCached
    \/ AwaitCachePromise(Req) /\ UNCHANGED <<orchVars, calls, response, vps, api>>
    \/ \E o \in 1..MaxOps : getSdkCacheSettles(o) /\ UNCHANGED <<orchVars, calls, response, vps, api>>
    \/ \E o \in 1..MaxOps : createSdkCacheSettles(o) /\ UNCHANGED <<orchVars, calls, response, vps, api>>
    \/ \E o \in 1..MaxOps : saveMapMkdirSettles(o) /\ UNCHANGED <<orchVars, calls, response, vps, api>>
    \/ \E o \in 1..MaxOps : saveMapWriteSettles(o) /\ UNCHANGED <<orchVars, calls, response, vps, api>>
    \/ removePersistentEntry(Req) /\ UNCHANGED <<orchVars, calls, response, vps, api>>

SpecPrepare == InitPrepare /\ [][NextPrepare]_vars

\* the VPS worker: tasks processed concurrently
InitVps ==
    /\ CacheInit
    /\ persistentCacheNameMapInternal = [k \in CacheKeys |-> NoCache]
    /\ ~cacheMapDirExists
    /\ cacheManagerAvailable
    /\ cfg = DefaultConfig
    /\ orch = IdleOrch
    /\ eng = IdleEngine
    /\ response = IdleResponse
    /\ vps = IdleVps
    /\ api = IdleApi

NextVps ==
    \/ \E t \in Tasks : processTask(t)
    \/ \E t \in Tasks : consumeSettles(t)
    \/ \E t \in Tasks : generateContentSettles(t)

SpecVps == InitVps /\ [][NextVps]_vars

\* the model lists of the configuration
TunedModelNameLists == {<<>>, <<"t1">>, <<"t1", "t2", "t3">>}

NonTunedModelNameLists == {<<"n1">>, <<"n1", "n2">>}

\* the service from construction on: init() and the public methods
InitApi ==
    /\ contextCachesInternal = [k \in CacheKeys |-> NoCache]
    /\ cachePromisesInternal = [k \in CacheKeys |-> 0]
    /\ persistentCacheNameMapInternal = [k \in CacheKeys |-> NoCache]
    /\ \E p \in {NoCache, 1} : cacheMapFile = [k \in CacheKeys |-> p]
    /\ cacheMapDirExists = TRUE
    /\ cacheManagerAvailable = TRUE
    /\ ops = <<>>
    /\ callers = [c \in Callers |-> IdleCaller]
    /\ calls = 0
    /\ response = IdleResponse
    /\ vps = IdleVps
    /\ cfg = DefaultConfig
    /\ orch = IdleOrch
    /\ eng = IdleEngine
    /\ \E tl \in TunedModelNameLists, nl \in NonTunedModelNameLists,
          ratio \in {0, 2} :
          api = [IdleApi EXCEPT !.tunedModelNames = tl,
                                !.nonTunedModelNames = nl,
                                !.vpsWorkerLoadRatio = ratio]

NextApi ==
    \/ init
    \/ \E i \in 1..MaxInits : loadMapSettles(i)
    \/ \E t \in PublicApiTypes, c \in CrawlModelTypes : executeApiCallLogic(t, c)
    \/ vpsCallSettles
    \/ orchestrateApiCallSettles

SpecApi == InitApi /\ [][NextApi]_vars

\* one run of processResponse on a response of the provider
InitResponse ==
    /\ CacheInit
    /\ persistentCacheNameMapInternal = [k \in CacheKeys |-> NoCache]
    /\ ~cacheMapDirExists
    /\ cacheManagerAvailable
    /\ cfg = DefaultConfig
    /\ orch = IdleOrch
    /\ eng = IdleEngine
    /\ \E sdk \in SdkResults :
          response = [IdleResponse EXCEPT !.pc = "start", !.sdkResult = sdk]
    /\ vps = IdleVps
    /\ api = IdleApi

NextResponse == processResponse \/ cleanJsonResponse

SpecResponse == InitResponse /\ [][NextResponse]_vars

\* --------------------------------------------------------------------- claims
\* C1: concurrent getOrCreateContext calls for one key that find no in-memory
\* entry share one operation: at most one operation per key is in flight,
\* every waiting caller waits on the registered one, an operation issues
\* createSdkCache at most once, and all callers that joined an operation
\* return its value (the created handle, or null when the creation failed).
C1_SingleFlight ==
    /\ \A o1, o2 \in 1..Len(ops) :
          InFlight(o1) /\ InFlight(o2) /\ ops[o1].key = ops[o2].key => o1 = o2
    /\ \A o \in 1..Len(ops) : ops[o].creates <= 1
    /\ \A c \in Callers :
          callers[c].pc = "awaiting" /\ InFlight(callers[c].joined)
             => cachePromisesInternal[callers[c].key] = callers[c].joined
    /\ \A c1, c2 \in Callers :
          ( /\ callers[c1].pc = "returned" /\ callers[c2].pc = "returned"
            /\ callers[c1].joined # 0
            /\ callers[c1].joined = callers[c2].joined )
          => /\ callers[c1].result = callers[c2].result
             /\ callers[c1].result = ops[callers[c1].joined].value

C1_Witness ==
    \E c1, c2 \in Callers :
       /\ c1 # c2
       /\ callers[c1].pc = "returned" /\ callers[c2].pc = "returned"
       /\ callers[c1].joined # 0 /\ callers[c1].joined = callers[c2].joined
       /\ ops[callers[c1].joined].creates = 1
       /\ ops[callers[c1].joined].created # NoCache
       /\ callers[c1].result = ops[callers[c1].joined].created
       /\ callers[c2].result = ops[callers[c1].joined].created

\* C2 (as stated): once a response was blocked for safety, the request makes
\* no further provider call, neither on the same model nor on the fallback.
C2_NoCallAfterSafetyBlock ==
    [][orch.safetyBlocked => ProviderCalls' = ProviderCalls]_vars

\* C3: with maxAttempts = 1 a retryable failure of the first attempt ends the
\* run with a failure: no backoff wait is ever entered, the prepared call is
\* invoked once, and the result carries no content.
C3_SingleAttemptNoBackoff ==
    eng.maxAttempts = 1 =>
       /\ eng.pc # "backoff_wait"
       /\ eng.nBackoffs = 0
       /\ eng.nCalls <= 1
       /\ (eng.nFailures >= 1 /\ shouldRetry(eng.errClass)) =>
             /\ eng.pc \in {"invalidating", "returned"}
             /\ eng.pc = "returned" =>
                   eng.result = FailureResult("failed_first_attempt")

C3_Witness ==
    /\ eng.maxAttempts = 1
    /\ eng.nFailures = 1
    /\ eng.errClass = "5xx"
    /\ eng.pc = "returned"
    /\ eng.nCalls = 1
    /\ eng.result = FailureResult("failed_first_attempt")

\* C4 (as stated): with maxAttempts = 1 a rate-limit rejection of the first
\* attempt returns without waiting the delay given by the limiter.
C4_NoRateLimitWaitOnSingleAttempt ==
    eng.maxAttempts = 1 => (eng.pc # "rl_wait" /\ ~eng.rlWaited)

\* C5: with maxAttempts = N > 1 at most N invocations of a run end in a
\* failure other than a rate-limit rejection, and after the N-th such failure
\* the prepared call is not invoked again.
C5_AtMostNFailures ==
    /\ [](eng.maxAttempts > 1 => eng.nFailures <= eng.maxAttempts)
    /\ [][(eng.maxAttempts > 1 /\ eng.nFailures = eng.maxAttempts)
             => eng'.nCalls = eng.nCalls]_vars

C5_Witness ==
    /\ eng.maxAttempts > 1
    /\ eng.nFailures = eng.maxAttempts
    /\ eng.nCalls > eng.maxAttempts
    /\ eng.pc = "returned"

\* C6 (as stated): with maxAttempts > 1 the delay waited before an attempt
\* (base delay plus jitter) is never smaller than the delay waited before the
\* previous attempt, as long as the previous base delay was below maxDelayMs.
C6_WaitedDelayNonDecreasing ==
    [][( /\ eng.maxAttempts > 1
         /\ eng.nBackoffs >= 1
         /\ eng'.nBackoffs = eng.nBackoffs + 1
         /\ eng.lastBase < cfg.maxDelayMs )
       => eng'.lastWait >= eng.lastWait]_vars

\* C6 (amended): the delay waited before an attempt is its base delay plus a
\* jitter in [0, 500); the base delay of the next wait is
\* min(2 * base, maxDelayMs), hence never below min(base, maxDelayMs).
C6_BaseDelayDoublesUpToCeiling ==
    [][( /\ eng.maxAttempts > 1
         /\ eng'.nBackoffs = eng.nBackoffs + 1 )
       => /\ eng'.lastWait >= eng'.lastBase
          /\ eng'.lastWait < eng'.lastBase + 500
          /\ eng.nBackoffs >= 1 =>
                /\ eng'.lastBase = Min(2 * eng.lastBase, cfg.maxDelayMs)
                /\ eng'.lastBase >= Min(eng.lastBase, cfg.maxDelayMs)]_vars

C6_Witness ==
    /\ eng.maxAttempts > 1
    /\ eng.nBackoffs = 2
    /\ eng.pc = "backoff_wait"
    /\ eng.lastBase = 200
    /\ eng.lastWait = 200

\* C7: when the single primary attempt failed with a 5xx error and the
\* fallback run returned a response with content, the request returns
\* success = true, usedFallback = true and the fallback model name.
C7_FallbackSuccess ==
    ( /\ orch.pc = "done"
      /\ orch.phase = "fallback"
      /\ orch.primaryErrClass = "5xx"
      /\ eng.pc = "returned"
      /\ HasContent(eng.result) )
    => /\ orch.result.success
       /\ orch.result.usedFallback
       /\ orch.result.modelActuallyUsed = cfg.fallbackModelName

C7_Witness ==
    /\ orch.pc = "done"
    /\ orch.phase = "fallback"
    /\ orch.primaryErrClass = "5xx"
    /\ orch.primaryModelResult.finalErrorType = "failed_first_attempt"
    /\ eng.pc = "returned"
    /\ HasContent(eng.result)
    /\ eng.result.firstAttemptFailed
    /\ eng.nFailures = 1
    /\ eng.nCalls = 2
    /\ orch.result.success

\* C8: without a primary model name and without a fallback model the request
\* prepares nothing, makes no provider call and returns success = false with
\* finalErrorType 'no_primary_model'.
C8_NoModels ==
    (cfg.primaryModelName = "" /\ cfg.fallbackModelName = "") =>
       /\ ProviderCalls = 0
       /\ orch.prepCalls = 0
       /\ orch.pc = "done" =>
             /\ ~orch.result.success
             /\ orch.result.finalErrorType = "no_primary_model"

C8_Witness ==
    /\ cfg.primaryModelName = ""
    /\ cfg.fallbackModelName = ""
    /\ orch.pc = "done"
    /\ ~orch.result.success
    /\ orch.result.finalErrorType = "no_primary_model"

\* C9: when the retrieval of the persisted handle fails (not found or error),
\* the operation removes the persisted entry before it creates, issues one
\* createSdkCache, and when that returns a named cache stores it in the
\* in-memory and in the persisted map and returns it to its callers.
C9_RecreateAfterFailedRetrieval ==
    /\ [](\A o \in 1..Len(ops) : ops[o].retrievalFailed =>
            /\ ops[o].pc \in {"rm_mkdir", "rm_write", "creating"}
                  => persistentCacheNameMapInternal[ops[o].key] = NoCache
            /\ ops[o].pc \in {"creating", "save_mkdir", "save_write"}
                  => ops[o].creates = 1
            /\ (ops[o].pc = "finished" /\ ops[o].created # NoCache)
                  => /\ ops[o].value = ops[o].created
                     /\ ops[o].value # ops[o].known
                     /\ \A c \in Callers :
                           (callers[c].pc = "returned" /\ callers[c].joined = o)
                              => callers[c].result = ops[o].created)
    /\ [][\A o \in 1..Len(ops) :
            ( /\ ops[o].retrievalFailed
              /\ ops[o].pc = "creating"
              /\ ops'[o].created # NoCache )
            => /\ contextCachesInternal'[ops[o].key] = ops'[o].created
               /\ persistentCacheNameMapInternal'[ops[o].key] = ops'[o].created]_vars

C9_Witness ==
    \E o \in 1..Len(ops) :
       /\ ops[o].retrievalFailed
       /\ ops[o].known # NoCache
       /\ ops[o].pc = "finished"
       /\ ops[o].created # NoCache
       /\ contextCachesInternal[ops[o].key] = ops[o].created
       /\ persistentCacheNameMapInternal[ops[o].key] = ops[o].created
       /\ cacheMapFile[ops[o].key] = ops[o].created
       /\ \E c \in Callers : /\ callers[c].pc = "returned"
                             /\ callers[c].joined = o
                             /\ callers[c].result = ops[o].created

\* the value a response text was generated from, parsed from its clean form
ExpectedValue == JSONParse(SerializeValue(<<"obj", response.sdkResult.object>>))

\* a comma followed by optional white space and a closing } or ]
HasCommaCloser(str) ==
    \E i \in 1..Len(str) :
       /\ str[i] = ","
       /\ SkipWhitespace(str, i + 1) <= Len(str)
       /\ str[SkipWhitespace(str, i + 1)] \in {"}", "]"}

RECURSIVE StringsFreeOfCommaCloser(_)
StringsFreeOfCommaCloser(v) ==
    IF v[1] = "str" THEN ~HasCommaCloser(v[2])
    ELSE IF v[1] = "num" THEN TRUE
    ELSE \A n \in 1..Len(v[2]) : /\ ~HasCommaCloser(v[2][n][1])
                                 /\ StringsFreeOfCommaCloser(v[2][n][2])

\* C11 (as stated): processResponse on a fenced block wrapping a JSON object
\* with one trailing comma before its closing } returns a text that parses to
\* the value of the object written without fence and trailing comma.
C11_FencedTrailingCommaRoundTrip ==
    (response.pc \in {"returned", "threw"}
       /\ response.sdkResult.kind = "fenced_comma")
    => /\ response.pc = "returned"
       /\ JSONParse(response.responseText) = ExpectedValue

\* C11 (amended): the same, for objects none of whose strings contains a
\* comma followed by optional white space and a closing } or ].
C11_RoundTripOutsideStrings ==
    (response.pc \in {"returned", "threw"}
       /\ response.sdkResult.kind = "fenced_comma"
       /\ StringsFreeOfCommaCloser(<<"obj", response.sdkResult.object>>))
    => /\ response.pc = "returned"
       /\ ExpectedValue.ok
       /\ JSONParse(response.responseText) = ExpectedValue

C11_Witness ==
    /\ response.pc = "returned"
    /\ response.sdkResult.kind = "fenced_comma"
    /\ Len(response.sdkResult.object) = 2
    /\ response.sdkResult.object[1][2] = <<"str", <<"}", ",">>>>
    /\ StringsFreeOfCommaCloser(<<"obj", response.sdkResult.object>>)
    /\ JSONParse(response.responseText) =
          [ok |-> TRUE, val |-> <<"obj", response.sdkResult.object>>]

\* C12: when the single primary attempt returned text or usage metadata, the
\* request is finished with success = true, usedFallback = false and the
\* primary model name; one preparation and one provider call were made, the
\* fallback phase is never entered and nothing more happens in the request.
C12_PrimarySuccessReturns ==
    /\ []((orch.primaryModelResult.defined
            /\ (orch.primaryModelResult.responseText # ""
                  \/ orch.primaryModelResult.metaData # "null"))
          => /\ orch.pc = "done"
             /\ orch.phase = "primary"
             /\ orch.result.success
             /\ ~orch.result.usedFallback
             /\ orch.result.modelActuallyUsed = cfg.primaryModelName
             /\ orch.result.responseText = orch.primaryModelResult.responseText
             /\ orch.prepCalls = 1
             /\ ProviderCalls = 1)
    /\ [][(orch.pc = "done" /\ orch.phase = "primary" /\ orch.result.success)
            => (orch' = orch /\ eng' = eng)]_vars

C12_Witness ==
    /\ orch.pc = "done"
    /\ orch.phase = "primary"
    /\ cfg.fallbackModelName = "m2"
    /\ orch.primaryModelResult.defined
    /\ orch.primaryModelResult.responseText = ""
    /\ orch.primaryModelResult.metaData = "usage"
    /\ orch.result.success
    /\ orch.result.modelActuallyUsed = "m1"
    /\ ProviderCalls = 1

C14_FallbackTreatment ==
    orch.phase = "fallback" =>
       /\ EffectiveCrawlModelType =
             (IF cfg.crawlModel = "tuned" THEN "non-tuned" ELSE cfg.crawlModel)
       /\ orch.pc = "cache" => cfg.allowCacheForNonTuned
       /\ orch.pc = "done" =>
             /\ orch.result.usedFallback
             /\ orch.result.crawlModelActuallyUsed =
                   (IF cfg.crawlModel = "tuned" THEN "non-tuned"
                                                ELSE cfg.crawlModel)

C14_Witness ==
    /\ orch.pc = "done"
    /\ orch.phase = "fallback"
    /\ cfg.crawlModel = "tuned"
    /\ orch.usingCacheActual
    /\ orch.result.success
    /\ orch.result.usedFallback
    /\ orch.result.crawlModelActuallyUsed = "non-tuned"

\* C15 (as stated): a key has an in-flight registration only while the
\* operation registered for it has not completed, on every completion path.
C15_NoRegistrationAfterCompletion ==
    \A k \in CacheKeys :
       cachePromisesInternal[k] # 0 => InFlight(cachePromisesInternal[k])

\* C16: an operation whose createSdkCache fails or returns an object without
\* name completes with null, its callers return null, and the in-memory and
\* the persisted map hold no entry for the key after the failure.
C16_CreationFailureReturnsNull ==
    /\ [](\A o \in 1..Len(ops) :
            (ops[o].pc = "finished" /\ ops[o].creates = 1
               /\ ops[o].created = NoCache)
            => /\ ops[o].value = NoCache
               /\ \A c \in Callers :
                     (callers[c].pc = "returned" /\ callers[c].joined = o)
                        => callers[c].result = NoCache)
    /\ [][\A o \in 1..Len(ops) :
            (ops[o].pc = "creating" /\ ops'[o].pc = "finished")
            => /\ ops'[o].value = NoCache
               /\ contextCachesInternal'[ops[o].key] = NoCache
               /\ persistentCacheNameMapInternal'[ops[o].key] = NoCache
               /\ cacheMapFile' = cacheMapFile]_vars

C16_Witness ==
    \E o \in 1..Len(ops) :
       /\ ops[o].pc = "finished"
       /\ ops[o].creates = 1
       /\ ops[o].created = NoCache
       /\ ops[o].value = NoCache
       /\ contextCachesInternal[ops[o].key] = NoCache
       /\ persistentCacheNameMapInternal[ops[o].key] = NoCache
       /\ \E c \in Callers : /\ callers[c].pc = "returned"
                             /\ callers[c].joined = o
                             /\ callers[c].result = NoCache

\* C17: with maxAttempts > 1 a rate-limit rejection and the wait that follows
\* leave the attempt counter and the backoff delay unchanged, and after the
\* wait the call is invoked again (same attempt number, same attempts left).
C17_RateLimitKeepsAttempt ==
    [][(eng.maxAttempts > 1 /\ eng'.maxAttempts = eng.maxAttempts)
       => /\ (eng.pc = "calling" /\ eng'.pc = "rl_wait")
                => /\ eng'.retryCount = eng.retryCount
                   /\ eng'.currentDelay = eng.currentDelay
          /\ eng.pc = "rl_wait"
                => /\ eng'.pc = "calling"
                   /\ eng'.nCalls = eng.nCalls + 1
                   /\ eng'.retryCount = eng.retryCount
                   /\ eng'.currentDelay = eng.currentDelay]_vars

C17_Witness ==
    /\ eng.pc = "calling"
    /\ eng.maxAttempts > 1
    /\ eng.rlWaited
    /\ eng.retryCount = 1
    /\ eng.nFailures = 1
    /\ eng.nRateLimited = 1
    /\ eng.nCalls = 3

\* C18: an orchestrated request never ends in a raised error, whatever fails
\* in limiter acquisition, cache setup, model preparation or the provider
\* call of either phase; when it ends it has produced an OrchestrationResult
\* whose fields agree (content iff success, no failure reason on success).
C18_AlwaysStructuredResult ==
    /\ orch.pc \in {"start", "prep", "cache", "purge", "model", "prepared",
                    "run", "decide", "done"}
    /\ eng.pc \in {"idle", "calling", "rl_wait", "invalidating",
                   "backoff_wait", "returned"}
    /\ orch.pc = "done"
         => /\ orch.result.success \in BOOLEAN
            /\ orch.result.usedFallback \in BOOLEAN
            /\ orch.result.success
                 <=> (orch.result.responseText # ""
                        \/ orch.result.metaData # "null")
            /\ orch.result.success
                 => orch.result.finalErrorType = "undefined"
            /\ orch.result.modelActuallyUsed
                 \in {cfg.primaryModelName, cfg.fallbackModelName}

C18_Witness ==
    /\ orch.pc = "done"
    /\ orch.limiterFailed = cfg.primaryModelName
    /\ cfg.primaryModelName # ""
    /\ orch.phase = "fallback"
    /\ eng.nFailures >= 1
    /\ ~orch.result.success
    /\ orch.result.usedFallback

\* C19 (as stated): once creating the limiter of a model has failed, the
\* request goes on with no other model and ends as a failure of that model.
C19_LimiterFailureIsFatalForModel ==
    orch.limiterFailed # ""
       => /\ ReqModel = orch.limiterFailed
          /\ orch.pc = "done"
               => /\ ~orch.result.success
                  /\ orch.result.modelActuallyUsed = orch.limiterFailed

\* C20: the phases of a request are sequential. The fallback phase begins
\* only at the decision taken after the primary, never ends, and while it
\* lasts the primary attempt is resolved and nothing of the primary is
\* pending: no engine run for the primary model, no cache operation and no
\* invalidation for the primary key.
C20_PhasesSequential ==
    /\ [](orch.phase = "fallback"
           => /\ orch.pc \in {"prep", "cache", "purge", "model", "prepared",
                              "run", "done"}
              /\ orch.callsBefore > 0
                   => /\ orch.primaryModelResult.defined
                      /\ orch.primaryModelResult.responseText = ""
                      /\ orch.primaryModelResult.metaData = "null"
              /\ eng.pc # "idle" => eng.modelName = cfg.fallbackModelName
              /\ \A o \in 1..Len(ops) :
                    ops[o].key = cacheKey("extract", cfg.primaryModelName)
                       => ops[o].pc = "finished"
              /\ callers[Req].key = cacheKey("extract", cfg.primaryModelName)
                   => callers[Req].pc \in {"idle", "returned"})
    /\ [][/\ (orch.phase = "primary" /\ orch'.phase = "fallback")
               => /\ orch.pc = "decide"
                  /\ orch'.pc = "prep"
                  /\ eng.pc = "idle"
                  /\ orch'.prepCalls = orch.prepCalls
          /\ orch.phase = "fallback" => orch'.phase = "fallback"]_vars

C20_Witness ==
    /\ orch.phase = "fallback"
    /\ orch.pc = "run"
    /\ eng.pc = "calling"
    /\ eng.modelName = cfg.fallbackModelName
    /\ orch.primaryModelResult.defined
    /\ orch.primaryErrClass = "cache"
    /\ \E o \in 1..Len(ops) :
          /\ ops[o].key = cacheKey("extract", cfg.primaryModelName)
          /\ ops[o].pc = "finished"
    /\ \E o \in 1..Len(ops) :
          ops[o].key = cacheKey("extract", cfg.fallbackModelName)

\* C21 (as stated): with maxAttempts = N > 1, a run that returns after its
\* N-th counted failure, the last one retryable, reports a failure reason
\* other than the single-shot reason 'failed_first_attempt'.
C21_ExhaustedReasonDistinct ==
    ( /\ eng.pc = "returned"
      /\ eng.maxAttempts > 1
      /\ eng.nFailures = eng.maxAttempts
      /\ shouldRetry(eng.errClass) )
    => eng.result.finalErrorType # "failed_first_attempt"

\* C22: a failure classified as stale cache starts the invalidation of the
\* key apiType-modelName in the same step, and from then until the engine
\* invokes the next call or returns, the key has neither an in-memory nor a
\* persisted entry.
C22_StaleCacheInvalidatedBeforeRetry ==
    /\ [](eng.pc = "invalidating"
           => /\ contextCachesInternal[cacheKey("extract", eng.modelName)]
                   = NoCache
              /\ persistentCacheNameMapInternal[cacheKey("extract",
                                                         eng.modelName)]
                   = NoCache)
    /\ [][( /\ eng.pc = "calling"
            /\ eng'.nFailures = eng.nFailures + 1
            /\ eng'.errClass = "cache" )
          => /\ eng'.pc = "invalidating"
             /\ contextCachesInternal'[cacheKey("extract", eng.modelName)]
                   = NoCache
             /\ persistentCacheNameMapInternal'[cacheKey("extract",
                                                         eng.modelName)]
                   = NoCache]_vars
    /\ [][(eng.pc = "invalidating" /\ eng'.pc # "invalidating")
          => /\ eng'.pc \in {"backoff_wait", "returned"}
             /\ eng'.nCalls = eng.nCalls
             /\ contextCachesInternal'[cacheKey("extract", eng.modelName)]
                   = NoCache
             /\ persistentCacheNameMapInternal'[cacheKey("extract",
                                                         eng.modelName)]
                   = NoCache]_vars

C22_Witness ==
    /\ eng.pc = "calling"
    /\ eng.errClass = "cache"
    /\ eng.nFailures = 1
    /\ eng.nCalls = 2
    /\ orch.usingCacheActual
    /\ contextCachesInternal[cacheKey("extract", eng.modelName)] = NoCache
    /\ persistentCacheNameMapInternal[cacheKey("extract", eng.modelName)]
          = NoCache
    /\ \E o \in 1..Len(ops) : /\ ops[o].key = cacheKey("extract", eng.modelName)
                              /\ ops[o].value # NoCache

\* C23 (as stated): no step between two suspension points removes the entry
\* of a key from one of the two maps and leaves the key's entry in the other.
C23_PurgeAtomic ==
    [][\A k \in CacheKeys :
          /\ ( /\ contextCachesInternal[k] # NoCache
               /\ contextCachesInternal'[k] = NoCache )
             => persistentCacheNameMapInternal'[k] = NoCache
          /\ ( /\ persistentCacheNameMapInternal[k] # NoCache
               /\ persistentCacheNameMapInternal'[k] = NoCache )
             => contextCachesInternal'[k] = NoCache]_vars

\* C24: within one run of executeWithRetry every invocation of the call gets
\* the preparation the run was started with (same cached-or-uncached shape,
\* same handle), also after a stale-cache invalidation.
C24_RequestShapeFixed ==
    /\ [](eng.nCalls >= 1 => eng.invokedWith = eng.modelPreparation)
    /\ [][(eng.pc # "idle" /\ eng'.pc # "idle" /\ eng.nCalls >= 1)
          => /\ eng'.modelPreparation = eng.modelPreparation
             /\ eng'.invokedWith = eng.invokedWith]_vars

C24_Witness ==
    /\ eng.pc = "calling"
    /\ eng.nCalls = 2
    /\ eng.nFailures = 1
    /\ eng.errClass = "cache"
    /\ eng.invokedWith.usingCacheActual
    /\ eng.invokedWith.currentCache # NoCache
    /\ contextCachesInternal[cacheKey("extract", eng.modelName)] = NoCache

\* C25: a completed prepareModel has built one of two request shapes, and
\* usingCacheActual tells which. Cached shape: model of a non-empty handle
\* the Cache Manager returned, shouldUseCache true, the prompt turn as the
\* only content. Uncached shape in every other case: no handle, the explicit
\* system instruction, every few-shot part in order, the prompt turn last.
C25_TwoRequestShapes ==
    /\ [](orch.pc = "prepared" =>
          LET prompt == [role |-> "user",
                         text |-> orch.prepConfig.finalBatchPrompt]
              parts == orch.prepConfig.fewShotParts
              req == orch.request
          IN IF orch.usingCacheActual
             THEN /\ orch.prepConfig.shouldUseCache
                  /\ callers[Req].pc = "returned"
                  /\ callers[Req].result # NoCache
                  /\ req.model.cachedContent = callers[Req].result
                  /\ req.contents = <<prompt>>
             ELSE /\ req.model.cachedContent = NoCache
                  /\ req.model.systemInstruction
                        = orch.prepConfig.systemInstructionText
                  /\ Len(req.contents) = Len(parts) + 1
                  /\ \A i \in 1..Len(parts) :
                        req.contents[i].text = <<parts[i]>>
                  /\ req.contents[Len(parts) + 1] = prompt)
    /\ [][(orch.pc # "prepared" /\ orch'.pc = "prepared")
          => ( orch'.usingCacheActual
                 <=> /\ orch.pc = "cache"
                     /\ orch.prepConfig.shouldUseCache
                     /\ callers[Req].result # NoCache )]_vars

C25_Witness ==
    /\ orch.pc = "prepared"
    /\ ~orch.usingCacheActual
    /\ orch.prepConfig.shouldUseCache
    /\ orch.prepConfig.systemInstructionText = "sys"
    /\ Len(orch.prepConfig.fewShotParts) = 3
    /\ Len(orch.request.contents) = 4
    /\ \E o \in 1..Len(ops) : ops[o].pc = "finished" /\ ops[o].value = NoCache

\* C26: a call whose effective treatment is 'tuned' is prepared with caching
\* off, an empty system instruction, no few-shot parts and plain-text output
\* without a response schema, whatever the settings of the api type say, and
\* it performs no cache get-or-create.
C26_TunedStripsConfiguration ==
    /\ []((EffectiveCrawlModelType = "tuned"
             /\ orch.pc \in {"cache", "purge", "model", "prepared"})
          => /\ ~orch.prepConfig.shouldUseCache
             /\ orch.prepConfig.systemInstructionText = ""
             /\ orch.prepConfig.fewShotParts = <<>>
             /\ orch.prepConfig.responseMimeType = "text/plain"
             /\ ~orch.prepConfig.responseSchema
             /\ orch.pc \in {"model", "prepared"}
             /\ ~orch.usingCacheActual
             /\ callers[Req].pc = "idle"
             /\ ops = <<>>)
    /\ [][EffectiveCrawlModelType = "tuned"
            => (ops' = ops /\ callers' = callers)]_vars

C26_Witness ==
    /\ EffectiveCrawlModelType = "tuned"
    /\ orch.pc = "prepared"
    /\ cfg.allowCacheForNonTuned
    /\ cfg.allowFewShotForNonTuned
    /\ cfg.fewShotParts # <<>>
    /\ cfg.systemInstruction = "sys"
    /\ cfg.responseSchema
    /\ cfg.responseMimeType = "application/json"
    /\ persistentCacheNameMapInternal[ReqKey] # NoCache
    /\ orch.request.contents
          = <<[role |-> "user", text |-> orch.prepConfig.finalBatchPrompt]>>

\* C27: a getOrCreateContext call that finds an in-memory entry with a handle
\* returns that handle in the same step and changes nothing else: no remote
\* operation is started, and the in-memory, in-flight and persisted maps and
\* the map file stay as they were.
C27_InMemoryHitNoIO ==
    [][\A c \in Callers :
          ( /\ calls' = calls + 1
            /\ callers'[c] # callers[c]
            /\ callers'[c].pc \in {"returned", "awaiting"}
            /\ contextCachesInternal[callers'[c].key] # NoCache )
          => /\ callers'[c].pc = "returned"
             /\ callers'[c].result = contextCachesInternal[callers'[c].key]
             /\ callers'[c].joined = 0
             /\ ops' = ops
             /\ contextCachesInternal' = contextCachesInternal
             /\ cachePromisesInternal' = cachePromisesInternal
             /\ persistentCacheNameMapInternal'
                   = persistentCacheNameMapInternal
             /\ cacheMapFile' = cacheMapFile
             /\ cacheMapDirExists' = cacheMapDirExists]_vars

C27_Witness ==
    \E c \in Callers :
       /\ callers[c].pc = "returned"
       /\ callers[c].joined = 0
       /\ callers[c].result # NoCache
       /\ callers[c].result = contextCachesInternal[callers[c].key]
       /\ \E o \in 1..Len(ops) : InFlight(o)

\* C28: getLimiter constructs at most one limiter per model name, with the
\* configured options; tasks of the same model hold the same instance, the
\* one registered for the model, and tasks of different models hold
\* different instances.
C28_OneLimiterPerModel ==
    /\ \A i, j \in 1..Len(vps.instances) :
          vps.instances[i].keyPrefix = vps.instances[j].keyPrefix => i = j
    /\ \A i \in 1..Len(vps.instances) :
          \E m \in ModelNames :
             /\ vps.instances[i]
                  = [points |-> "VPS_GEMINI_RATE_LIMIT_POINTS",
                     duration |-> "VPS_GEMINI_RATE_LIMIT_DURATION",
                     blockDuration |-> "VPS_GEMINI_RATE_LIMIT_BLOCK_DURATION",
                     keyPrefix |-> <<"model_", m>>]
             /\ vps.modelRateLimitersInternal[m] = i
    /\ \A t \in Tasks :
          vps.tasks[t].pc \in {"consuming", "generating", "done"}
             => /\ vps.tasks[t].limiter # 0
                /\ vps.tasks[t].limiter
                     = vps.modelRateLimitersInternal[vps.tasks[t].modelName]
    /\ \A t, u \in Tasks :
          (vps.tasks[t].limiter # 0 /\ vps.tasks[u].limiter # 0)
             => ( vps.tasks[t].limiter = vps.tasks[u].limiter
                    <=> vps.tasks[t].modelName = vps.tasks[u].modelName )

C28_Witness ==
    /\ Len(vps.instances) = 2
    /\ \E t, u, v \in Tasks :
          /\ t # u
          /\ vps.tasks[t].limiter # 0
          /\ vps.tasks[t].limiter = vps.tasks[u].limiter
          /\ vps.tasks[v].limiter # 0
          /\ vps.tasks[v].limiter # vps.tasks[t].limiter

\* C29: a task whose consumption the limiter rejected never invokes
\* generateContent and never raises: it ends with success = false, error
\* name 'VpsRateLimitError' and the msBeforeNext of the rejection.
C29_RateLimitRejectionReported ==
    \A t \in Tasks :
       vps.tasks[t].msBeforeNext # -1
          => /\ vps.tasks[t].pc = "done"
             /\ vps.tasks[t].generateContentCalls = 0
             /\ ~vps.tasks[t].response.success
             /\ vps.tasks[t].response.errorName = "VpsRateLimitError"
             /\ vps.tasks[t].response.details = vps.tasks[t].msBeforeNext

C29_Witness ==
    \E t, u \in Tasks :
       /\ vps.tasks[t].pc = "done"
       /\ vps.tasks[t].msBeforeNext = 30000
       /\ vps.tasks[t].response.errorName = "VpsRateLimitError"
       /\ vps.tasks[u].pc = "done"
       /\ vps.tasks[u].response.success
       /\ vps.tasks[u].modelName = vps.tasks[t].modelName

\* C30: when the preparation of the primary model fails, the retry engine is
\* not invoked for the primary model and no provider call is made for it;
\* the request goes on to the fallback model if one is configured, and the
\* fallback run starts with the full configured budget (GEMINI_MAX_RETRIES
\* attempts, none used).
C30_PrimaryPrepFailureKeepsBudget ==
    /\ [](( /\ cfg.primaryModelName # ""
            /\ ~orch.primaryModelResult.defined
            /\ (orch.pc \in {"decide", "done"} \/ orch.phase = "fallback") )
          => /\ orch.callsBefore = 0
             /\ orch.phase = "primary" => eng.pc = "idle"
             /\ eng.pc # "idle"
                  => /\ eng.modelName = cfg.fallbackModelName
                     /\ eng.maxAttempts = cfg.maxRetries
             /\ (orch.pc = "done" /\ cfg.fallbackModelName # "")
                  => /\ orch.phase = "fallback"
                     /\ orch.result.usedFallback
                     /\ orch.result.modelActuallyUsed = cfg.fallbackModelName)
    /\ [][( /\ cfg.primaryModelName # ""
            /\ ~orch.primaryModelResult.defined
            /\ orch.pc = "decide"
            /\ cfg.fallbackModelName # "" )
          => (orch'.phase = "fallback" /\ orch'.pc = "prep")]_vars
    /\ [][(orch.phase = "fallback" /\ orch.pc = "prepared"
             /\ orch'.pc = "run")
          => /\ eng'.maxAttempts = cfg.maxRetries
             /\ eng'.retryCount = 0
             /\ eng'.nCalls = 1]_vars

C30_Witness ==
    /\ cfg.primaryModelName # ""
    /\ ~orch.primaryModelResult.defined
    /\ orch.callsBefore = 0
    /\ orch.phase = "fallback"
    /\ orch.pc = "run"
    /\ cfg.maxRetries = MaxFallbackRetries
    /\ eng.pc = "returned"
    /\ eng.nFailures = cfg.maxRetries
    /\ eng.nCalls = cfg.maxRetries

\* C31: a response that fails the JSON validation of processResponse is an
\* unclassified retryable failure for the retry engine, whatever its text:
\* the class is the general one, no cache invalidation is triggered, and
\* with attempts remaining the failure counts one attempt and the engine
\* goes on to the backoff wait before the next attempt.
C31_InvalidJsonUnclassifiedRetryable ==
    response.error = "invalid_json" =>
       LET class == ClassifyError(response.errorMarks)
       IN /\ class = "unknown"
          /\ shouldRetry(class)
          /\ ~invalidateCacheOnError(class)
          /\ \A n \in 2..MaxRetries : \A r \in 0..(n - 2), j \in JitterValues :
                LET e == AfterFailure([IdleEngine EXCEPT !.pc = "calling",
                                          !.maxAttempts = n,
                                          !.retryCount = r,
                                          !.currentDelay = cfg.initialDelayMs],
                                      class, j)
                IN e.pc = "backoff_wait" /\ e.retryCount = r + 1

\* C32: cleanJsonResponse returns for every input, and what it returns is
\* the empty string or a text that parses as JSON.
C32_CleanedIsEmptyOrJson ==
    response.pc = "cleaned" =>
       response.cleaned = <<>> \/ JSONParse(response.cleaned).ok

\* cleanJsonResponse was given a text whose {...} part is not JSON
C32_Witness ==
    /\ response.pc = "cleaned"
    /\ response.cleaned = <<>>
    /\ IndexOf(response.cleanInput, "{") # 0
    /\ LastIndexOf(response.cleanInput, "}") > IndexOf(response.cleanInput, "{")
    /\ ~JSONParse(response.cleanInput).ok

\* C33: the few-shot history of a request alternates strictly between input
\* ('user') and output ('model') entries, every output entry being the
\* configured output of the input entry just before it; an input without an
\* output is left out and never shifts later examples into the wrong role.
\* (Each input value of FewShotConfigs belongs to one example.)
ConfiguredOutput(input) ==
    IF \E c \in FewShotConfigs : \E i \in 1..Len(c) : c[i].input = input
    THEN LET c == CHOOSE c \in FewShotConfigs :
                     \E i \in 1..Len(c) : c[i].input = input
             i == CHOOSE i \in 1..Len(c) : c[i].input = input
         IN c[i].output
    ELSE ""

C33_HistoryAlternates ==
    (orch.pc = "prepared" /\ ~orch.usingCacheActual) =>
       LET contents == orch.request.contents
       IN \A i \in 1..(Len(contents) - 1) :
             IF i % 2 = 1
             THEN /\ contents[i].role = "user"
                  /\ ConfiguredOutput(contents[i].text[1]) # ""
             ELSE /\ contents[i].role = "model"
                  /\ contents[i].text
                        = <<ConfiguredOutput(contents[i - 1].text[1])>>

\* C34: whenever no write of the persisted cache map is in progress, the
\* content of the durable file equals the in-process persisted map.
WriteInProgress ==
    \/ \E o \in 1..Len(ops) :
          ops[o].pc \in {"save_mkdir", "save_write", "rm_mkdir", "rm_write"}
    \/ \E c \in Callers : callers[c].pc \in {"inv_mkdir", "inv_write"}

C34_FileEqualsMap ==
    ~WriteInProgress => cacheMapFile = persistentCacheNameMapInternal

\* C35 (as stated): every run of executeWithRetry eventually reaches a
\* terminal result when every invocation and every wait completes, for every
\* sequence of attempt outcomes, repeated rate-limit rejections included.
C35_EveryRunTerminates ==
    (eng.pc = "calling") ~> (eng.pc = "returned")

\* C35 (amended): a run invokes the call at most maxAttempts times plus once
\* per rate-limit rejection, and it reaches a terminal result unless the
\* limiter rejects the call again and again without end.
C35_TerminatesUnlessRejectedForever ==
    /\ [](eng.nCalls <= eng.maxAttempts + eng.nRateLimited)
    /\ (<>[](eng.pc \notin {"rl_wait", "rl_wait_beyond"}))
          => ((eng.pc = "calling") ~> (eng.pc = "returned"))

\* a run with attempts to spare returned after the limiter had rejected the
\* call more than MaxRateLimitHits times and an attempt had failed
C35_Witness ==
    /\ eng.pc = "returned"
    /\ eng.maxAttempts > 1
    /\ eng.nRateLimited = MaxRateLimitHits
    /\ eng.rlWaited
    /\ eng.nFailures >= 1
    /\ eng.result.finalErrorType = "undefined"

\* C36: the round-robin index kept per task type is always a valid position
\* in the model list used by the current call, whatever mix of 'tuned' and
\* 'non-tuned' calls came before, so the model name handed to the
\* orchestrator is never undefined when the chosen list is non-empty.
C36_RoundRobinIndexValid ==
    api.last.listLength > 0
       => /\ api.last.currentIndex < api.last.listLength
          /\ api.last.selectedModelName # "undefined"

\* C39: no orchestration and no worker call is started through the public
\* methods before an init() has completed successfully.  While no init() has
\* succeeded (not yet called, still loading, or the load failed) the service
\* stays uninitialized, every call is rejected and dispatches nothing, and a
\* further init() starts the load again.
C39_NoDispatchBeforeInit ==
    /\ []((\A i \in 1..Len(api.inits) : api.inits[i] # "initialized")
            => /\ ~api.serviceInitialized
               /\ api.nRejected = api.nCalls
               /\ api.awaitingVps = 0
               /\ api.awaitingOrchestrator = 0
               /\ api.returned = IdleApi.returned
               /\ api.modelIndices = IdleApi.modelIndices
               /\ api.vpsRequestCounter = 0)
    /\ [][((\A i \in 1..Len(api.inits) : api.inits[i] # "initialized")
             /\ Len(api'.inits) > Len(api.inits))
           => api'.inits[Len(api'.inits)] = "loading"]_vars

\* the first load failed, a call made meanwhile was rejected, a second
\* init() succeeded and the next call reached the orchestrator
C39_Witness ==
    /\ api.inits = <<"failed", "initialized">>
    /\ api.nRejected >= 1
    /\ api.last.outcome = "orchestrator"
    /\ api.awaitingOrchestrator = 1

\* C37: whenever no getOrCreateContext and no invalidation of a key is in
\* progress, an in-memory cache entry of the key implies that the persisted
\* map holds an entry of the key with the same handle name.
InProgressFor(k) ==
    \/ \E o \in 1..Len(ops) : ops[o].key = k /\ InFlight(o)
    \/ \E c \in Callers :
          callers[c].key = k
             /\ callers[c].pc \in {"awaiting", "inv_mkdir", "inv_write"}

C37_InMemoryImpliesPersisted ==
    \A k \in CacheKeys :
       (~InProgressFor(k) /\ contextCachesInternal[k] # NoCache)
          => persistentCacheNameMapInternal[k] = contextCachesInternal[k]

\* C38: an invalidation of a key removes only the entry that was stale when
\* it started: when removePersistentEntry resumes after its durable write, an
\* in-memory entry stored meanwhile by a getOrCreateContext that created a
\* new cache is left in place.
C38_InvalidationKeepsNewEntry ==
    [][\A c \in Callers :
          ( /\ callers[c].pc \in {"inv_mkdir", "inv_write"}
            /\ callers'[c].pc = "idle"
            /\ contextCachesInternal[callers[c].key] # NoCache
            /\ \E o \in 1..Len(ops) :
                  /\ ops[o].key = callers[c].key
                  /\ ops[o].created = contextCachesInternal[callers[c].key] )
          => contextCachesInternal'[callers[c].key]
                = contextCachesInternal[callers[c].key]]_vars

\* C40 (as stated): every result of orchestrateApiCall with success = false
\* carries a defined finalErrorType and empty response text, and every result
\* with success = true has response text or usage metadata, whatever the
\* provider call returned, a return of empty text with no usage metadata
\* included.
C40_FailureCarriesReason ==
    orch.pc = "done"
      => /\ ~orch.result.success
              => /\ orch.result.finalErrorType # "undefined"
                 /\ orch.result.responseText = ""
         /\ orch.result.success
              => (orch.result.responseText # ""
                    \/ orch.result.metaData # "null")

====
